---------------------------- MODULE Spec2Model ----------------------------
(***************************************************************************)
(* zlog: a process-wide zap logger behind a sync.Once gate.                *)
(*                                                                         *)
(* The specifications of this module share its variables.                  *)
(*   Spec       goroutines calling InitLogger / InitDefault / Logger /     *)
(*              Sugar / Sync and the typed-field log facades, again and    *)
(*              again and concurrently; every access to a package-level    *)
(*              variable is one step.                                      *)
(*   SpecRace   the first use: every goroutine makes one call of Logger,   *)
(*              Sugar, Sync or a log facade while the global slot is empty.*)
(*   SpecBuild  validate(), newLogger() and one dispatch applied to every  *)
(*              LoggerConfig of a bounded product of field values.         *)
(*   SpecHooks  the hook registry and the log facades, one logging         *)
(*              goroutine beside the registrations.                        *)
(*   SpecCtx    context binding on every context.                          *)
(*   SpecSample identical log calls within one tick of the sampler.        *)
(*   SpecLevel  UnmarshalText and MarshalText.                             *)
(*   SpecEnv    InitFromEnv over the process environment.                  *)
(*   SpecLock   RegisterLogHook and executeHooks, step by step under       *)
(*              hooksMutex.                                                *)
(*   SpecSink   concurrent records on the write syncers of the cores.      *)
(***************************************************************************)
EXTENDS Integers, Sequences, FiniteSets, TLC

(***************************************************************************)
(* Bounds                                                                  *)
(***************************************************************************)
NumProcs == 2

\* the number of identical log calls SpecSample follows within one tick
MaxCalls == 1000

Procs == 1..NumProcs

(***************************************************************************)
(* Level (level.go): type Level string                                     *)
(***************************************************************************)
DebugLevel == "debug"
InfoLevel == "info"
WarnLevel == "warn"
ErrorLevel == "error"
PanicLevel == "panic"
FatalLevel == "fatal"

\* the six constants, listed in the order of their declaration
LevelOrder == <<DebugLevel, InfoLevel, WarnLevel, ErrorLevel, PanicLevel, FatalLevel>>

Levels == {LevelOrder[i] : i \in 1..Len(LevelOrder)}

\* Level values a caller can put in a LoggerConfig that are none of the six
\* constants: the zero value, and two other texts
InvalidLevels == {"", "emerg", "trace"}

\* Level.Valid
Valid(l) == l \in Levels

\* the bytes of the level texts and of the other texts UnmarshalText knows
\* (Go strings are byte sequences)
Bytes(s) ==
  CASE s = "debug" -> <<100, 101, 98, 117, 103>>
    [] s = "info" -> <<105, 110, 102, 111>>
    [] s = "warn" -> <<119, 97, 114, 110>>
    [] s = "error" -> <<101, 114, 114, 111, 114>>
    [] s = "panic" -> <<112, 97, 110, 105, 99>>
    [] s = "fatal" -> <<102, 97, 116, 97, 108>>
    [] s = "" -> <<>>
    [] s = "emerg" -> <<101, 109, 101, 114, 103>>
    [] s = "trace" -> <<116, 114, 97, 99, 101>>
    [] s = "d" -> <<100>>
    [] s = "i" -> <<105>>
    [] s = "w" -> <<119>>
    [] s = "e" -> <<101>>
    [] s = "p" -> <<112>>
    [] s = "f" -> <<102>>
    [] s = "warning" -> <<119, 97, 114, 110, 105, 110, 103>>
    [] s = "err" -> <<101, 114, 114>>

RECURSIVE BytesLess(_, _)
BytesLess(a, b) ==
  IF b = <<>> THEN FALSE
  ELSE IF a = <<>> THEN TRUE
  ELSE IF Head(a) # Head(b) THEN Head(a) < Head(b)
  ELSE BytesLess(Tail(a), Tail(b))

\* l1 < l2 on two Level values: Level is a string type, so the comparison
\* operators of the language compare the texts byte by byte
LevelLess(a, b) == BytesLess(Bytes(a), Bytes(b))

\* a variant that leaves the text as it is
ToLowerKeepsCase(t) == t

\* strings.ToLower on a text of ASCII bytes: A..Z become a..z
ToLower(t) == [i \in 1..Len(t) |-> IF t[i] \in 65..90 THEN t[i] + 32 ELSE t[i]]

\* (l *Level) UnmarshalText(text): the value of *l afterwards and the error
UnmarshalText(l, t) ==
  LET levelStr == ToLower(t)
      set(v) == [level |-> v, err |-> "<nil>"]
  IN CASE levelStr \in {Bytes("debug"), Bytes("d")} -> set(DebugLevel)
       [] levelStr \in {Bytes("info"), Bytes("i")} -> set(InfoLevel)
       [] levelStr \in {Bytes("warn"), Bytes("warning"), Bytes("w")} -> set(WarnLevel)
       [] levelStr \in {Bytes("error"), Bytes("err"), Bytes("e")} -> set(ErrorLevel)
       [] levelStr \in {Bytes("panic"), Bytes("p")} -> set(PanicLevel)
       [] levelStr \in {Bytes("fatal"), Bytes("f")} -> set(FatalLevel)
       [] OTHER -> [level |-> l, err |-> "invalid log level"]

\* (l Level) MarshalText(): "info" for a level that is not valid
MarshalText(l) ==
  [text |-> IF ~Valid(l) THEN Bytes("info") ELSE Bytes(l), err |-> "<nil>"]

\* toZapCoreLevel: the zapcore.Level of a Level, InfoLevel by default
toZapCoreLevel(l) ==
  CASE l = DebugLevel -> -1
    [] l = InfoLevel -> 0
    [] l = WarnLevel -> 1
    [] l = ErrorLevel -> 2
    [] l = PanicLevel -> 4
    [] l = FatalLevel -> 5
    [] OTHER -> 0

(***************************************************************************)
(* LoggerConfig (config.go)                                                *)
(***************************************************************************)
DefaultConfig ==
  [Level |-> InfoLevel, Output |-> "console", Format |-> "console",
   FilePath |-> "", MaxSize |-> 100, MaxBackups |-> 10, MaxAge |-> 30,
   Compress |-> TRUE, Sampling |-> FALSE]

\* a nil error
nil == "<nil>"

\* a variant that forgets Output = both
FilePathMissingOnlyFile(c) == c.Output = "file" /\ c.FilePath = ""

\* the condition of the one hard configuration failure
FilePathMissing(c) == (c.Output = "file" \/ c.Output = "both") /\ c.FilePath = ""

\* a variant that takes a zero MaxBackups or MaxAge for unset
RotationDefaultsZeroUnset(c) ==
  [c EXCEPT !.MaxSize = IF @ <= 0 THEN 100 ELSE @,
            !.MaxBackups = IF @ <= 0 THEN 10 ELSE @,
            !.MaxAge = IF @ <= 0 THEN 30 ELSE @]

\* "set defaults for rotation": MaxSize <= 0, MaxBackups < 0, MaxAge < 0
RotationDefaults(c) ==
  [c EXCEPT !.MaxSize = IF @ <= 0 THEN 100 ELSE @,
            !.MaxBackups = IF @ < 0 THEN 10 ELSE @,
            !.MaxAge = IF @ < 0 THEN 30 ELSE @]

\* a variant that fills a missing file path in instead of reporting it
validateFillingPath(c) ==
  [cfg |-> IF FilePathMissing(c)
           THEN [RotationDefaults(c) EXCEPT !.FilePath = "./logs/app.log"]
           ELSE RotationDefaults(c),
   err |-> nil]

\* LoggerConfig.validate(): the config as left in place, and the error
validate(c) ==
  [cfg |-> RotationDefaults(c),
   err |-> IF FilePathMissing(RotationDefaults(c))
           THEN "FilePath is required when Output='file'" ELSE nil]

(***************************************************************************)
(* newLogger                                                               *)
(***************************************************************************)
NilLogger == [nil |-> TRUE]

NilSugar == [nil |-> TRUE]

\* the process working directory, and the paths of the model
Wd == "/srv"

RelPath == "logs/app.log"

AbsPath == "/var/log/app.log"

\* filepath.IsAbs
IsAbs(path) == path \in {AbsPath, Wd \o "/" \o RelPath}

\* filepath.Join(wd, path)
Join(wd, path) == wd \o "/" \o path

NormalizeLevel(l) ==
  IF LevelLess(l, DebugLevel) \/ LevelLess(FatalLevel, l) THEN InfoLevel ELSE l

\* a variant with the default of the earlier NewLogger: both
NormalizeOutputBoth(o) == IF o \in {"console", "file", "both"} THEN o ELSE "both"

NormalizeOutput(o) == IF o \in {"console", "file", "both"} THEN o ELSE "console"

NormalizeFormat(f) == IF f # "json" /\ f # "console" THEN "console" ELSE f

\* os.Stdout behind zapcore.Lock: no rotation
Stdout ==
  [Filename |-> "/dev/stdout", MaxSize |-> 0, MaxBackups |-> 0, MaxAge |-> 0,
   Compress |-> FALSE]

\* the lumberjack.Logger of the file core
Lumberjack(cfg) ==
  [Filename |-> cfg.FilePath, MaxSize |-> cfg.MaxSize,
   MaxBackups |-> cfg.MaxBackups, MaxAge |-> cfg.MaxAge,
   Compress |-> cfg.Compress]

ConsoleCore(cfg) ==
  [kind |-> "console",
   enc |-> IF cfg.Format = "json" THEN "json" ELSE "console",
   level |-> toZapCoreLevel(cfg.Level),
   writer |-> Stdout]

\* a variant whose file encoder follows Format
FileCoreByFormat(cfg) ==
  [kind |-> "file", enc |-> cfg.Format, level |-> toZapCoreLevel(cfg.Level),
   writer |-> Lumberjack(cfg)]

FileCore(cfg) ==
  [kind |-> "file", enc |-> "json", level |-> toZapCoreLevel(cfg.Level),
   writer |-> Lumberjack(cfg)]

\* a variant that adds the file core for Output = file alone
CoresConsoleOnly(cfg) ==
  IF cfg.Output = "console" \/ cfg.Output = "both" THEN <<ConsoleCore(cfg)>>
  ELSE <<FileCore(cfg)>>

\* "5. Build cores": the console core, then the file core
Cores(cfg) ==
  (IF cfg.Output = "console" \/ cfg.Output = "both" THEN <<ConsoleCore(cfg)>> ELSE <<>>)
  \o (IF cfg.Output = "file" \/ cfg.Output = "both" THEN <<FileCore(cfg)>> ELSE <<>>)

\* the filesystem as newLogger meets it: whether os.Getwd and os.MkdirAll succeed
FsOk == [getwd |-> TRUE, mkdir |-> TRUE]

Filesystems == [getwd : BOOLEAN, mkdir : BOOLEAN]

\* newLogger's cfg after "Normalize log level / output destination / format"
NormalizeEnums(config) ==
  [config EXCEPT !.Level = NormalizeLevel(@),
                 !.Output = NormalizeOutput(@),
                 !.Format = NormalizeFormat(@)]

\* "Resolve relative file path to absolute"
ResolvePath(cfg) ==
  IF cfg.FilePath # "" /\ ~IsAbs(cfg.FilePath)
  THEN [cfg EXCEPT !.FilePath = Join(Wd, @)] ELSE cfg

\* newLogger's cfg when it reaches "5. Build cores"
Normalized(config) == ResolvePath(RotationDefaults(NormalizeEnums(config)))

\* newLogger(config): the *zap.Logger and the error
newLogger(config, fs) ==
  LET pre == NormalizeEnums(config)
      rot == RotationDefaults(pre)
      cfg == ResolvePath(rot)
      fail(msg) == [logger |-> NilLogger, err |-> msg]
  IN  IF FilePathMissing(pre)
        THEN fail("file path is required when output is 'file' or 'both'")
      ELSE IF rot.FilePath # "" /\ ~IsAbs(rot.FilePath) /\ ~fs.getwd
        THEN fail("failed to get working directory")
      ELSE IF cfg.FilePath # "" /\ ~fs.mkdir
        THEN fail("failed to create log directory")
      ELSE IF Len(Cores(cfg)) = 0
        THEN fail("no valid log output configured")
      ELSE [logger |-> [cores |-> Cores(cfg), sampling |-> cfg.Sampling,
                        callerSkip |-> 1],
            err |-> nil]

\* zap.Logger.WithOptions(zap.AddCallerSkip(1)): a clone, one more frame skipped
WithCallerSkip(logger) == [logger EXCEPT !.callerSkip = @ + 1]

\* zap.Logger.Sugar(): a SugaredLogger around a clone of the logger
SugarOf(logger) == [base |-> [logger EXCEPT !.callerSkip = @ + 2]]

(***************************************************************************)
(* Dispatch: what a zap.Logger method call does with one record         *)
(***************************************************************************)
Sinks == {"console", "file"}

\* zapcore.NewSamplerWithOptions(core, time.Second, first, thereafter)
SamplerFirst == 100

SamplerThereafter == 100

\* a variant that admits every second record after the first ones
SamplerAdmitsHalf(n) ==
  n <= SamplerFirst \/ (n - SamplerFirst) % 2 = 0

\* the sampler on the n-th record of one level and message within one tick
SamplerAdmits(n) ==
  n <= SamplerFirst \/ (n - SamplerFirst) % SamplerThereafter = 0

\* a core's LevelEnabler: zapLevel admits zl iff zl >= zapLevel
Enabled(core, zl) == zl >= core.level

\* the number of times the record is written to each sink: the Tee offers the
\* entry to every core, and each enabled core writes it once
Write(logger, zl, n) ==
  [k \in Sinks |->
     Cardinality({i \in 1..Len(logger.cores) :
                   /\ logger.cores[i].kind = k
                   /\ Enabled(logger.cores[i], zl)
                   /\ (logger.sampling => SamplerAdmits(n))})]

NoWrites == [k \in Sinks |-> 0]

\* logWithFields' switch: the zap method called for a Level, as its zapcore level
\* (logger.Debug = -1, Info = 0, Warn = 1, Error = 2, Panic = 4, Fatal = 5)
logWithFieldsMethod(level) ==
  CASE level = DebugLevel -> -1
    [] level = InfoLevel -> 0
    [] level = WarnLevel -> 1
    [] level = ErrorLevel -> 2
    [] level = PanicLevel -> 4
    [] level = FatalLevel -> 5

\* what zap does after the write: Panic panics, Fatal calls os.Exit(1)
AfterWrite(zl) ==
  IF zl = 4 THEN "panicked" ELSE IF zl = 5 THEN "exited" ELSE "returned"

(***************************************************************************)
(* State                                                                   *)
(***************************************************************************)
VARIABLES
  globalLogger,         \* var globalLogger *zap.Logger
  globalSugaredLogger,  \* var globalSugaredLogger *zap.SugaredLogger
  onceDone,             \* once: its done flag
  onceOwner,            \* once: the goroutine inside Do's function, 0 if none
  builds,               \* the number of newLogger executions so far
  exited,               \* os.Exit was called
  pc,                   \* each goroutine's position
  call,                 \* each goroutine's current call: name and arguments
  err,                  \* InitLogger's local err / the error a call returns
  logger,               \* the value Logger() returned to this call
  sugar,                \* the value Sugar() returned to this call
  outcome,              \* "running", "returned", "panicked" (zap's panic),
                        \* "crashed" (nil pointer dereference), "exited"
  wrote,                \* the writes of this call's record, per sink
  ran,                  \* this call ran the function given to once.Do
  config,               \* SpecBuild: the LoggerConfig under test
  result,               \* the last pure operation applied and its result
  globalHooks,          \* var globalHooks []LogHook
  hooks,                \* executeHooks: this call's copy of globalHooks
  trace,                \* what this call has done so far: hook invocations,
                        \* sink writes, the panic or the exit, in order
  text,                 \* SpecLevel: the text given to UnmarshalText
  lvl,                  \* SpecLevel: the Level variable UnmarshalText assigns
  ctx,                  \* SpecCtx: the context.Context of the call
  window,               \* SpecSample: the sampler's current tick and the tallies
  hooksMutex,           \* var hooksMutex sync.RWMutex: its writer and its readers
  env,                  \* SpecEnv: the process environment
  sinkOut,              \* SpecSink: what each sink has received, in order
  sinkLock              \* SpecSink: the goroutine inside each sink's Write

vars ==
  <<globalLogger, globalSugaredLogger, onceDone, onceOwner, builds, exited,
    pc, call, err, logger, sugar, outcome, wrote, ran, config, result,
    globalHooks, hooks, trace, text, lvl, ctx, window,
    hooksMutex, env, sinkOut, sinkLock>>

globals == <<globalLogger, globalSugaredLogger, onceDone, onceOwner, builds, exited>>

locals == <<pc, call, err, logger, sugar, outcome, wrote, ran>>

\* the variables of the hook registry and of the other specifications
more == <<hooksMutex, env, sinkOut, sinkLock>>

rest == <<globalHooks, hooks, trace, text, lvl, ctx, window, more>>

pure == <<config, result, rest>>

\* the configs the goroutines of Spec pass to InitLogger
FileConfig ==
  [Level |-> WarnLevel, Output |-> "both", Format |-> "json",
   FilePath |-> RelPath, MaxSize |-> 50, MaxBackups |-> 3, MaxAge |-> 7,
   Compress |-> FALSE, Sampling |-> FALSE]

BadFileConfig == [DefaultConfig EXCEPT !.Output = "file"]

BadBothConfig == [FileConfig EXCEPT !.FilePath = ""]

InitConfigs == {FileConfig, BadFileConfig, BadBothConfig}

NoCall == [name |-> "none", cfg |-> DefaultConfig, level |-> "none"]

NoResult == [op |-> "none"]

InitGlobals ==
  /\ globalLogger = NilLogger
  /\ globalSugaredLogger = NilSugar
  /\ onceDone = FALSE
  /\ onceOwner = 0
  /\ builds = 0
  /\ exited = FALSE

InitLocals ==
  /\ pc = [p \in Procs |-> "idle"]
  /\ call = [p \in Procs |-> NoCall]
  /\ err = [p \in Procs |-> nil]
  /\ logger = [p \in Procs |-> NilLogger]
  /\ sugar = [p \in Procs |-> NilSugar]
  /\ outcome = [p \in Procs |-> "returned"]
  /\ wrote = [p \in Procs |-> NoWrites]
  /\ ran = [p \in Procs |-> FALSE]

\* a context without values
NoCtx == [k \in {"request_id", "user_id", "trace_id"} |-> [type |-> "none", v |-> ""]]

\* the sampler's tick: the level of the calls counted, their number, and what
\* they have written to the sinks and how often they invoked each hook
NoWindow == [level |-> InfoLevel, n |-> 0, written |-> NoWrites, hooked |-> 0]

\* hooksMutex unlocked, no environment read yet, nothing written to a sink
NoMutex == [writer |-> 0, readers |-> {}]

NoEnv == <<>>

InitMore ==
  /\ hooksMutex = NoMutex
  /\ env = NoEnv
  /\ sinkOut = [s \in Sinks |-> <<>>]
  /\ sinkLock = [s \in Sinks |-> 0]

InitRest ==
  /\ InitMore
  /\ globalHooks = <<>>
  /\ hooks = [p \in Procs |-> <<>>]
  /\ trace = [p \in Procs |-> <<>>]
  /\ text = <<>>
  /\ lvl = InfoLevel
  /\ ctx = NoCtx
  /\ window = NoWindow

Init ==
  /\ InitGlobals
  /\ InitLocals
  /\ InitRest
  /\ config = DefaultConfig
  /\ result = NoResult

(***************************************************************************)
(* Calls                                                                   *)
(***************************************************************************)
IsInit(c) == c.name \in {"InitLogger", "InitDefault"}

At(p, where) == ~exited /\ pc[p] = where

\* a goroutine that is not inside a call makes one
Start(p, name, cfg, level, first) ==
  /\ ~exited
  /\ pc[p] \in {"idle", "ret"}
  /\ call' = [call EXCEPT ![p] =
                [name |-> name, cfg |-> cfg, level |-> level]]
  /\ pc' = [pc EXCEPT ![p] = first]
  /\ err' = [err EXCEPT ![p] = nil]
  /\ logger' = [logger EXCEPT ![p] = NilLogger]
  /\ sugar' = [sugar EXCEPT ![p] = NilSugar]
  /\ outcome' = [outcome EXCEPT ![p] = "running"]
  /\ wrote' = [wrote EXCEPT ![p] = NoWrites]
  /\ ran' = [ran EXCEPT ![p] = FALSE]
  /\ UNCHANGED <<globals, pure>>

CallInitLogger(p) ==
  \E cfg \in InitConfigs : Start(p, "InitLogger", cfg, "none", "once")

\* InitDefault: return InitLogger(DefaultConfig())
CallInitDefault(p) == Start(p, "InitDefault", DefaultConfig, "none", "once")

CallLogger(p) == Start(p, "Logger", DefaultConfig, "none", "check")

CallSugar(p) == Start(p, "Sugar", DefaultConfig, "none", "check")

CallSync(p) == Start(p, "Sync", DefaultConfig, "none", "check")

\* Debug / Info / Warn / Error / Panic / Fatal: logWithFields(level, msg, fields).
\* No hook is registered in Spec, so the first reader of level is the switch after
\* Logger(): the level of the call is drawn there (Emit)
CallLog(p) == Start(p, "Log", DefaultConfig, "none", "hooks")

\* the call returns (or ends) with outcome o
Finish(p, o) ==
  /\ pc' = [pc EXCEPT ![p] = "ret"]
  /\ outcome' = [outcome EXCEPT ![p] = o]

\* logWithFields: executeHooks(level, msg, fields) runs before Logger()
ExecuteHooks(p) ==
  /\ At(p, "hooks")
  /\ pc' = [pc EXCEPT ![p] = "check"]
  /\ UNCHANGED <<globals, call, err, logger, sugar, outcome, wrote, ran, pure>>

\* a variant of Logger() that never initialises
NeedsInitNever(slot) == FALSE

\* Logger(): if globalLogger == nil
NeedsInit(slot) == slot = NilLogger

CheckNil(p) ==
  /\ At(p, "check")
  /\ pc' = [pc EXCEPT ![p] = IF NeedsInit(globalLogger) THEN "once" ELSE "read"]
  /\ UNCHANGED <<globals, call, err, logger, sugar, outcome, wrote, ran, pure>>

(***************************************************************************)
(* once.Do(f)                                                              *)
(***************************************************************************)
\* a variant of the gate that forgets the done flag
OnceMayRunIgnoringDone(done, owner) == owner = 0

\* f runs iff done is unset, and one goroutine at a time holds once's mutex
OnceMayRun(done, owner) == ~done /\ owner = 0

\* once.Do returns at once: another call has completed f
OnceSkip(p) ==
  /\ At(p, "once")
  /\ onceDone
  /\ ~OnceMayRun(onceDone, onceOwner)
  /\ IF IsInit(call[p])
     THEN Finish(p, "returned")
     ELSE pc' = [pc EXCEPT ![p] = "read"] /\ UNCHANGED outcome
  /\ UNCHANGED <<globals, call, err, logger, sugar, wrote, ran, pure>>

\* once.Do runs f in this goroutine; the others wait for it
OnceEnter(p) ==
  /\ At(p, "once")
  /\ OnceMayRun(onceDone, onceOwner)
  /\ onceOwner' = p
  /\ ran' = [ran EXCEPT ![p] = TRUE]
  /\ pc' = [pc EXCEPT ![p] = "build"]
  /\ UNCHANGED <<globalLogger, globalSugaredLogger, onceDone, builds, exited,
                 call, err, logger, sugar, outcome, wrote, pure>>

\* a variant of InitLogger that drops initErr
ErrDropped(isInit, e) == nil

\* InitLogger keeps newLogger's error in err; Logger() assigns it to _
ErrKept(isInit, e) == IF isInit THEN e ELSE nil

\* globalLogger, err = newLogger(config)   /   globalLogger, _ = newLogger(cfg)
Build(p) ==
  /\ At(p, "build")
  /\ LET r == newLogger(call[p].cfg, FsOk) IN
       /\ globalLogger' = r.logger
       /\ builds' = builds + 1
       /\ err' = [err EXCEPT ![p] = ErrKept(IsInit(call[p]), r.err)]
       /\ pc' = [pc EXCEPT ![p] =
                   IF IsInit(call[p]) /\ r.err # nil THEN "unlock" ELSE "sugar"]
  /\ UNCHANGED <<globalSugaredLogger, onceDone, onceOwner, exited,
                 call, logger, sugar, outcome, wrote, ran, pure>>

\* globalSugaredLogger = globalLogger.Sugar(); on a nil logger the dereference
\* panics, and once.Do's deferred calls mark the gate done as the panic unwinds
SetSugar(p) ==
  /\ At(p, "sugar")
  /\ IF globalLogger = NilLogger
     THEN /\ onceDone' = TRUE
          /\ onceOwner' = 0
          /\ Finish(p, "crashed")
          /\ UNCHANGED globalSugaredLogger
     ELSE /\ globalSugaredLogger' = SugarOf(globalLogger)
          /\ pc' = [pc EXCEPT ![p] = "skip"]
          /\ UNCHANGED <<onceDone, onceOwner, outcome>>
  /\ UNCHANGED <<globalLogger, builds, exited, call, err, logger, sugar, wrote,
                 ran, pure>>

\* globalLogger = globalLogger.WithOptions(zap.AddCallerSkip(1))
AddCallerSkip(p) ==
  /\ At(p, "skip")
  /\ globalLogger' = WithCallerSkip(globalLogger)
  /\ pc' = [pc EXCEPT ![p] = "unlock"]
  /\ UNCHANGED <<globalSugaredLogger, onceDone, onceOwner, builds, exited,
                 call, err, logger, sugar, outcome, wrote, ran, pure>>

\* a variant of the gate that a failed initialisation leaves open
DoneAfterSuccess(e) == e = nil

\* once.Do marks the gate done when f returns, whatever f did
DoneAfter(e) == TRUE

\* f has returned: once sets done and releases its mutex; InitLogger returns err
OnceExit(p) ==
  /\ At(p, "unlock")
  /\ onceDone' = DoneAfter(err[p])
  /\ onceOwner' = 0
  /\ IF IsInit(call[p])
     THEN Finish(p, "returned") /\ UNCHANGED ran
     ELSE /\ pc' = [pc EXCEPT ![p] = "read"]
          /\ ran' = [ran EXCEPT ![p] = FALSE]
          /\ UNCHANGED outcome
  /\ UNCHANGED <<globalLogger, globalSugaredLogger, builds, exited,
                 call, err, logger, sugar, wrote, pure>>

(***************************************************************************)
(* Logger / Sugar / Sync / the log facades after Logger()                  *)
(***************************************************************************)
\* Logger(): return globalLogger.  Sugar() discards the value (_ = Logger())
ReadLogger(p) ==
  /\ At(p, "read")
  /\ logger' = [logger EXCEPT ![p] =
                  IF call[p].name = "Sugar" THEN NilLogger ELSE globalLogger]
  /\ IF call[p].name = "Logger"
     THEN Finish(p, "returned")
     ELSE /\ pc' = [pc EXCEPT ![p] =
                      CASE call[p].name = "Sugar" -> "readsugar"
                        [] call[p].name = "Sync" -> "sync"
                        [] call[p].name = "Log" -> "emit"]
          /\ UNCHANGED outcome
  /\ UNCHANGED <<globals, call, err, sugar, wrote, ran, pure>>

\* Sugar(): return globalSugaredLogger
ReadSugar(p) ==
  /\ At(p, "readsugar")
  /\ sugar' = [sugar EXCEPT ![p] = globalSugaredLogger]
  /\ Finish(p, "returned")
  /\ UNCHANGED <<globals, call, err, logger, wrote, ran, pure>>

\* Sync(): return logger.Sync(); the local logger dies with the call
DoSync(p) ==
  /\ At(p, "sync")
  /\ Finish(p, IF logger[p] = NilLogger THEN "crashed" ELSE "returned")
  /\ logger' = [logger EXCEPT ![p] = NilLogger]
  /\ UNCHANGED <<globals, call, err, sugar, wrote, ran, pure>>

\* logWithFields: the switch on level and the zap method it calls; the local
\* logger dies with the call
Emit(p) ==
  /\ At(p, "emit")
  /\ \E level \in Levels :
       LET zl == logWithFieldsMethod(level) IN
         /\ call' = [call EXCEPT ![p].level = level]
         /\ IF logger[p] = NilLogger
            THEN /\ Finish(p, "crashed")
                 /\ UNCHANGED <<wrote, exited>>
            ELSE /\ wrote' = [wrote EXCEPT ![p] = Write(logger[p], zl, 1)]
                 /\ Finish(p, AfterWrite(zl))
                 /\ exited' = (AfterWrite(zl) = "exited")
  /\ logger' = [logger EXCEPT ![p] = NilLogger]
  /\ UNCHANGED <<globalLogger, globalSugaredLogger, onceDone, onceOwner, builds,
                 err, sugar, ran, pure>>

Next ==
  \E p \in Procs :
    \/ CallInitLogger(p)
    \/ CallInitDefault(p)
    \/ CallLogger(p)
    \/ CallSugar(p)
    \/ CallSync(p)
    \/ CallLog(p)
    \/ ExecuteHooks(p)
    \/ CheckNil(p)
    \/ OnceSkip(p)
    \/ OnceEnter(p)
    \/ Build(p)
    \/ SetSugar(p)
    \/ AddCallerSkip(p)
    \/ OnceExit(p)
    \/ ReadLogger(p)
    \/ ReadSugar(p)
    \/ DoSync(p)
    \/ Emit(p)

Spec == Init /\ [][Next]_vars

(***************************************************************************)
(* SpecRace: concurrent first use of the empty slot                        *)
(***************************************************************************)
FirstPc(name) == IF name = "Log" THEN "hooks" ELSE "check"

InitRace ==
  /\ InitGlobals
  /\ \E names \in [Procs -> {"Logger", "Sugar", "Sync", "Log"}] :
       /\ pc = [p \in Procs |-> FirstPc(names[p])]
       /\ call = [p \in Procs |->
                    [name |-> names[p], cfg |-> DefaultConfig, level |-> "none"]]
  /\ err = [p \in Procs |-> nil]
  /\ logger = [p \in Procs |-> NilLogger]
  /\ sugar = [p \in Procs |-> NilSugar]
  /\ outcome = [p \in Procs |-> "running"]
  /\ wrote = [p \in Procs |-> NoWrites]
  /\ ran = [p \in Procs |-> FALSE]
  /\ InitRest
  /\ config = DefaultConfig
  /\ result = NoResult

NextRace ==
  \E p \in Procs :
    \/ ExecuteHooks(p)
    \/ CheckNil(p)
    \/ OnceSkip(p)
    \/ OnceEnter(p)
    \/ Build(p)
    \/ SetSugar(p)
    \/ AddCallerSkip(p)
    \/ OnceExit(p)
    \/ ReadLogger(p)
    \/ ReadSugar(p)
    \/ DoSync(p)
    \/ Emit(p)

SpecRace == InitRace /\ [][NextRace]_vars

(***************************************************************************)
(* SpecBuild: validate, newLogger and one dispatch, on every config        *)
(***************************************************************************)
Outputs == {"console", "file", "both", "stdout", ""}

Formats == {"json", "console", "text"}

FilePaths == {"", RelPath, AbsPath}

Configs ==
  [Level : Levels \cup InvalidLevels, Output : Outputs, Format : Formats,
   FilePath : FilePaths, MaxSize : {0, 50}, MaxBackups : {-1, 0},
   MaxAge : {-1, 0, 7}, Compress : BOOLEAN, Sampling : BOOLEAN]

\* the position of a record among those of its level and message in one tick
SampleCounts == {1, 100, 101, 200}

InitBuild ==
  /\ InitGlobals
  /\ InitLocals
  /\ InitRest
  /\ config \in Configs
  /\ result = NoResult

\* err := config.validate(): fills the rotation defaults in place
Validate ==
  /\ result.op = "none"
  /\ config' = validate(config).cfg
  /\ result' = [op |-> "validate", in |-> config, err |-> validate(config).err]
  /\ UNCHANGED <<globals, locals, rest>>

\* logger, err := newLogger(config): config is passed by value
NewLogger ==
  /\ result.op \in {"none", "validate"}
  /\ \E fs \in Filesystems :
       result' = [op |-> "newLogger", fs |-> fs,
                  logger |-> newLogger(config, fs).logger,
                  err |-> newLogger(config, fs).err]
  /\ UNCHANGED <<globals, locals, config, rest>>

\* one record at one of the six levels through the logger that was built
Dispatch ==
  /\ result.op = "newLogger"
  /\ result.err = nil
  /\ \E level \in Levels, n \in SampleCounts :
       result' = [op |-> "dispatch", logger |-> result.logger, level |-> level,
                  n |-> n,
                  wrote |-> Write(result.logger, logWithFieldsMethod(level), n),
                  after |-> AfterWrite(logWithFieldsMethod(level))]
  /\ UNCHANGED <<globals, locals, config, rest>>

NextBuild == Validate \/ NewLogger \/ Dispatch

SpecBuild == InitBuild /\ [][NextBuild]_vars

(***************************************************************************)
(* Context binding: loggerWithContext / sugarWithContext                   *)
(***************************************************************************)
\* RequestIDKey, UserIDKey, TraceIDKey
RequestIDKey == "request_id"

UserIDKey == "user_id"

TraceIDKey == "trace_id"

CtxKeys == {RequestIDKey, UserIDKey, TraceIDKey}

\* what ctx.Value(key) can hold: nothing, a string (possibly empty), or a value
\* of another type
CtxValues ==
  {[type |-> "none", v |-> ""], [type |-> "string", v |-> ""],
   [type |-> "string", v |-> "abc"], [type |-> "int", v |-> "42"]}

Contexts == [CtxKeys -> CtxValues]

\* a variant that omits the test for the empty string
FieldForSkippingEmptyTest(c, key, name) ==
  IF c[key].type = "string"
  THEN <<[key |-> name, type |-> "string", value |-> c[key].v]>>
  ELSE <<>>

\* if v, ok := ctx.Value(key).(string); ok && v != "" { append zap.String(name, v) }
FieldFor(c, key, name) ==
  IF c[key].type = "string" /\ c[key].v # ""
  THEN <<[key |-> name, type |-> "string", value |-> c[key].v]>>
  ELSE <<>>

\* extraFields, after the three tests
ExtraFields(c) ==
  FieldFor(c, RequestIDKey, "request_id") \o FieldFor(c, UserIDKey, "user_id")
    \o FieldFor(c, TraceIDKey, "trace_id")

\* the fields a logger carries from With: none on the logger newLogger built
FieldsOf(l) == IF "fields" \in DOMAIN l THEN l.fields ELSE <<>>

\* zap.Logger.With(fields...): a clone that adds the fields to every record
With(l, fields) ==
  [cores |-> l.cores, sampling |-> l.sampling, callerSkip |-> l.callerSkip,
   fields |-> FieldsOf(l) \o fields]

\* a variant that stores the derived logger in the global slot
SlotTakesBinding(slot, derived) == derived

\* zapLogger := Logger(); zapLogger.With(extraFields...) is returned, not stored
SlotAfterBinding(slot, derived) == slot

\* loggerWithContext(ctx), given what Logger() returned
loggerWithContext(c, l) ==
  IF Len(ExtraFields(c)) > 0 THEN With(l, ExtraFields(c)) ELSE l

\* sugarWithContext(ctx), given what Logger() returned
sugarWithContext(c, l) == SugarOf(loggerWithContext(c, l))

(***************************************************************************)
(* SpecHooks: the hook registry and the log facades on an installed logger *)
(***************************************************************************)
\* the LogHook values of the program: one whose OnLog returns an error, one
\* whose OnLog returns nil; RegisterLogHook is called once with each
Hooks == {"failing", "quiet"}

OnLogFails(h) == h = "failing"

\* the dispatch paths of the facade functions, by what they call
\*   logWithFields       Debug .. Fatal                     zlog.go 5-31, 55-78
\*   Sugar               Debugw .. Fatalf, Sugar().X        zlog.go 34-47
\*   SugarHooked         Debugw .. Fatalf, executeHooks     zlog.go 81-130
\*   loggerWithContext   DebugCtx .. FatalCtx               ctx.go 59-81
\*   logWithFieldsCtx    DebugCtx .. FatalCtx               ctx.go 170-206
\*   sugarWithContext    DebugfCtx .. FatalwCtx             ctx.go 84-131
Facades ==
  {"logWithFields", "Sugar", "SugarHooked", "loggerWithContext",
   "logWithFieldsCtx", "sugarWithContext"}

\* a variant in which the typed-field facade alone calls executeHooks
HookedFieldsOnly(f) == f = "logWithFields"

\* the facade calls executeHooks
Hooked(f) == f \in {"logWithFields", "SugarHooked", "logWithFieldsCtx"}

\* the facade takes a context.Context
UsesCtx(f) == f \in {"loggerWithContext", "logWithFieldsCtx", "sugarWithContext"}

\* logWithFieldsCtx' switch: no case for PanicLevel, Info by default
logWithFieldsCtxMethod(level) ==
  CASE level = DebugLevel -> -1
    [] level = WarnLevel -> 1
    [] level = ErrorLevel -> 2
    [] level = FatalLevel -> 5
    [] OTHER -> 0

\* the zap method a facade calls for a level, as its zapcore level
Method(f, level) ==
  IF f = "logWithFieldsCtx" THEN logWithFieldsCtxMethod(level)
  ELSE logWithFieldsMethod(level)

\* the configs of the logger installed before the calls of SpecHooks
HookConfigs == {DefaultConfig, [FileConfig EXCEPT !.Level = ErrorLevel]}

\* the contexts the calls of SpecHooks carry
HookContexts ==
  {NoCtx,
   [NoCtx EXCEPT ![RequestIDKey] = [type |-> "string", v |-> "abc"],
                 ![TraceIDKey] = [type |-> "string", v |-> ""]]}

\* SpecHooks follows the calls of one goroutine; the other goroutines of the
\* program register hooks while it logs
HookCallers == {1}

InitHooks ==
  /\ \E cfg \in HookConfigs :
       /\ globalLogger = WithCallerSkip(newLogger(cfg, FsOk).logger)
       /\ globalSugaredLogger = SugarOf(newLogger(cfg, FsOk).logger)
  /\ onceDone = TRUE
  /\ onceOwner = 0
  /\ builds = 1
  /\ exited = FALSE
  /\ InitLocals
  /\ InitRest
  /\ config = DefaultConfig
  /\ result = NoResult

\* RegisterLogHook(hook): Lock, append, Unlock
RegisterLogHook ==
  /\ ~exited
  /\ \E h \in Hooks :
       /\ \A i \in 1..Len(globalHooks) : globalHooks[i] # h
       /\ globalHooks' = Append(globalHooks, h)
  /\ UNCHANGED <<globals, locals, config, result, hooks, trace, text, lvl, ctx,
                 window,
                 more>>

\* a goroutine calls a facade function; the call remembers the hooks that were
\* registered before it
CallFacade(p) ==
  /\ ~exited
  /\ pc[p] \in {"idle", "ret"}
  /\ \E f \in Facades, level \in Levels, c \in HookContexts :
       /\ ~UsesCtx(f) => c = NoCtx
       /\ call' = [call EXCEPT ![p] =
                     [name |-> f, level |-> level, ctx |-> c,
                      before |-> globalHooks]]
       /\ pc' = [pc EXCEPT ![p] = IF Hooked(f) THEN "snapshot" ELSE "logger"]
  /\ logger' = [logger EXCEPT ![p] = NilLogger]
  /\ outcome' = [outcome EXCEPT ![p] = "running"]
  /\ wrote' = [wrote EXCEPT ![p] = NoWrites]
  /\ hooks' = [hooks EXCEPT ![p] = <<>>]
  /\ trace' = [trace EXCEPT ![p] = <<>>]
  /\ UNCHANGED <<globals, err, sugar, ran, config, result, globalHooks, text,
                 lvl, ctx, window,
                 more>>

\* executeHooks: RLock, copy globalHooks, RUnlock
Snapshot(p) ==
  /\ At(p, "snapshot")
  /\ hooks' = [hooks EXCEPT ![p] = globalHooks]
  /\ pc' = [pc EXCEPT ![p] = IF Len(globalHooks) = 0 THEN "logger" ELSE "onlog"]
  /\ UNCHANGED <<globals, call, err, logger, sugar, outcome, wrote, ran, config,
                 result, globalHooks, trace, text, lvl, ctx, window,
                 more>>

\* the hook invocations a call has made
Invoked(t) == SelectSeq(t, LAMBDA e : e.ev = "hook")

\* a variant of the loop that ranges from the last hook to the first
HookAtReversed(hs, i) == hs[Len(hs) + 1 - i]

\* for _, hook := range hooks: the i-th iteration's hook
HookAt(hs, i) == hs[i]

\* a variant of the loop that returns at the first error
LoopEndsAtError(hs, i, failed) == i = Len(hs) \/ failed

\* the loop ends after the last hook: an error is printed and the loop goes on
LoopEnds(hs, i, failed) == i = Len(hs)

\* executeHooks: one iteration, hook.OnLog(zlogLevel, msg, fields)
OnLog(p) ==
  /\ At(p, "onlog")
  /\ LET i == Len(Invoked(trace[p])) + 1
         h == HookAt(hooks[p], i)
     IN /\ trace' = [trace EXCEPT ![p] =
                       Append(@, [ev |-> "hook", hook |-> h,
                                  level |-> call[p].level,
                                  failed |-> OnLogFails(h)])]
        /\ pc' = [pc EXCEPT ![p] =
                    IF LoopEnds(hooks[p], i, OnLogFails(h)) THEN "logger"
                    ELSE "onlog"]
  /\ UNCHANGED <<globals, call, err, logger, sugar, outcome, wrote, ran, config,
                 result, globalHooks, hooks, text, lvl, ctx, window,
                 more>>

\* Logger() / Sugar() / loggerWithContext(ctx) / sugarWithContext(ctx) on the
\* installed logger; of a SugaredLogger the call keeps the zap.Logger it wraps
GetLogger(p) ==
  /\ At(p, "logger")
  /\ logger' = [logger EXCEPT ![p] =
       CASE call[p].name \in {"logWithFields"} -> globalLogger
         [] call[p].name \in {"Sugar", "SugarHooked"} -> globalSugaredLogger.base
         [] call[p].name \in {"loggerWithContext", "logWithFieldsCtx"} ->
              loggerWithContext(call[p].ctx, globalLogger)
         [] call[p].name = "sugarWithContext" ->
              sugarWithContext(call[p].ctx, globalLogger).base]
  /\ globalLogger' =
       IF UsesCtx(call[p].name)
       THEN SlotAfterBinding(globalLogger,
                             loggerWithContext(call[p].ctx, globalLogger))
       ELSE globalLogger
  /\ pc' = [pc EXCEPT ![p] = "write"]
  /\ UNCHANGED <<globalSugaredLogger, onceDone, onceOwner, builds, exited,
                 call, err, sugar, outcome, wrote, ran, config, result, rest>>

\* a variant in which a Panic or Fatal entry is not written
WriteEventsBelowPanic(l, zl, n) ==
  IF zl >= 4 THEN <<>>
  ELSE [i \in 1..Len(SelectSeq(l.cores, LAMBDA core : Enabled(core, zl))) |->
          [ev |-> "write", level |-> zl, fields |-> FieldsOf(l),
           sink |-> SelectSeq(l.cores, LAMBDA core : Enabled(core, zl))[i].kind]]

\* the writes of one entry, in the order of the Tee's cores: each core that the
\* level enables (and the sampler, if any, admits) writes the entry once
WriteEvents(l, zl, n) ==
  IF l.sampling /\ ~SamplerAdmits(n) THEN <<>>
  ELSE [i \in 1..Len(SelectSeq(l.cores, LAMBDA core : Enabled(core, zl))) |->
          [ev |-> "write", level |-> zl, fields |-> FieldsOf(l),
           sink |-> SelectSeq(l.cores, LAMBDA core : Enabled(core, zl))[i].kind]]

\* the zap method: check the entry against the cores and write it
WriteSinks(p) ==
  /\ At(p, "write")
  /\ LET zl == Method(call[p].name, call[p].level) IN
       /\ trace' = [trace EXCEPT ![p] = @ \o WriteEvents(logger[p], zl, 1)]
       /\ wrote' = [wrote EXCEPT ![p] = Write(logger[p], zl, 1)]
  /\ pc' = [pc EXCEPT ![p] = "after"]
  /\ UNCHANGED <<globals, call, err, logger, sugar, outcome, ran, config, result,
                 globalHooks, hooks, text, lvl, ctx, window,
                 more>>

\* the zap method, after the write: return, panic, or os.Exit(1)
AfterTheWrite(p) ==
  /\ At(p, "after")
  /\ LET after == AfterWrite(Method(call[p].name, call[p].level)) IN
       /\ Finish(p, after)
       /\ trace' = [trace EXCEPT ![p] =
                      IF after = "returned" THEN @
                      ELSE Append(@, [ev |-> after])]
       /\ exited' = (after = "exited")
  /\ UNCHANGED <<globalLogger, globalSugaredLogger, onceDone, onceOwner, builds,
                 call, err, logger, sugar, wrote, ran, config, result,
                 globalHooks, hooks, text, lvl, ctx, window,
                 more>>

NextHooks ==
  \/ RegisterLogHook
  \/ \E p \in HookCallers :
       \/ CallFacade(p)
       \/ Snapshot(p)
       \/ OnLog(p)
       \/ GetLogger(p)
       \/ WriteSinks(p)
       \/ AfterTheWrite(p)

SpecHooks == InitHooks /\ [][NextHooks]_vars

(***************************************************************************)
(* SpecCtx: context binding on every context                               *)
(***************************************************************************)
\* the logger InitDefault installs
DefaultLogger == WithCallerSkip(newLogger(DefaultConfig, FsOk).logger)

InitCtx ==
  /\ InitMore
  /\ InitGlobals
  /\ InitLocals
  /\ globalHooks = <<>>
  /\ hooks = [p \in Procs |-> <<>>]
  /\ trace = [p \in Procs |-> <<>>]
  /\ text = <<>>
  /\ lvl = InfoLevel
  /\ window = NoWindow
  /\ ctx \in Contexts
  /\ config = DefaultConfig
  /\ result = NoResult

\* zapLogger := loggerWithContext(ctx)
LoggerWithContext ==
  /\ result.op = "none"
  /\ result' = [op |-> "loggerWithContext",
                logger |-> loggerWithContext(ctx, DefaultLogger)]
  /\ UNCHANGED <<globals, locals, config, rest>>

\* sugarWithContext(ctx): of the SugaredLogger, the zap.Logger it wraps
SugarWithContext ==
  /\ result.op = "none"
  /\ result' = [op |-> "sugarWithContext",
                logger |-> sugarWithContext(ctx, DefaultLogger).base]
  /\ UNCHANGED <<globals, locals, config, rest>>

\* a record at one of the levels through the derived logger
EmitWithContext ==
  /\ result.op \in {"loggerWithContext", "sugarWithContext"}
  /\ \E level \in Levels :
       result' = [op |-> "emit", via |-> result.op, level |-> level,
                  records |-> WriteEvents(result.logger,
                                          logWithFieldsMethod(level), 1)]
  /\ UNCHANGED <<globals, locals, config, rest>>

NextCtx == LoggerWithContext \/ SugarWithContext \/ EmitWithContext

SpecCtx == InitCtx /\ [][NextCtx]_vars

(***************************************************************************)
(* SpecSample: identical log calls within one tick of the sampler          *)
(***************************************************************************)
\* the configs of the sampling logger installed before the calls
SampleConfigs ==
  {[DefaultConfig EXCEPT !.Sampling = TRUE],
   [FileConfig EXCEPT !.Sampling = TRUE, !.Level = ErrorLevel]}

InitSample ==
  /\ InitMore
  /\ \E cfg \in SampleConfigs :
       /\ globalLogger = WithCallerSkip(newLogger(cfg, FsOk).logger)
       /\ globalSugaredLogger = SugarOf(newLogger(cfg, FsOk).logger)
  /\ onceDone = TRUE
  /\ onceOwner = 0
  /\ builds = 1
  /\ exited = FALSE
  /\ InitLocals
  /\ globalHooks \in {<<>>, <<"quiet">>, <<"failing", "quiet">>}
  /\ hooks = [p \in Procs |-> <<>>]
  /\ trace = [p \in Procs |-> <<>>]
  /\ text = <<>>
  /\ lvl = InfoLevel
  /\ ctx = NoCtx
  /\ \E level \in {DebugLevel, InfoLevel, WarnLevel, ErrorLevel} :
       window = [NoWindow EXCEPT !.level = level]
  /\ config = DefaultConfig
  /\ result = NoResult

\* one more call of logWithFields with the level and the message of the tick:
\* executeHooks invokes every registered hook, then the zap method offers the
\* entry to the sampler, which counts it
LogSame ==
  /\ window.n < MaxCalls
  /\ window' =
       [window EXCEPT
          !.n = @ + 1,
          !.hooked = @ + Len(globalHooks),
          !.written =
            [k \in Sinks |->
               @[k] + Write(globalLogger, logWithFieldsMethod(window.level),
                            window.n + 1)[k]]]
  /\ UNCHANGED <<globals, locals, config, result, globalHooks, hooks, trace,
                 text, lvl, ctx,
                 more>>

\* the tick (time.Second) is over: the sampler's counter starts again
NextTick ==
  /\ window.n > 0
  /\ window' = [NoWindow EXCEPT !.level = window.level]
  /\ UNCHANGED <<globals, locals, config, result, globalHooks, hooks, trace,
                 text, lvl, ctx,
                 more>>

NextSample == LogSame \/ NextTick

SpecSample == InitSample /\ [][NextSample]_vars

(***************************************************************************)
(* SpecLevel: UnmarshalText and MarshalText on texts and levels            *)
(***************************************************************************)
\* a text in every mix of upper and lower case (the texts are lower case)
CaseVariants(t) ==
  {[i \in 1..Len(t) |-> IF i \in up THEN t[i] - 32 ELSE t[i]] :
     up \in SUBSET (1..Len(t))}

\* the texts a config file or an environment variable may hold for a level
KnownTexts ==
  {"debug", "d", "info", "i", "warn", "warning", "w", "error", "err", "e",
   "panic", "p", "fatal", "f"}

\* texts that are no level: empty, other words, a level with a blank or a
\* digit around it, a prefix of a level
OtherTexts ==
  {<<>>, Bytes("trace"), Bytes("emerg"), <<32>> \o Bytes("info"),
   Bytes("info") \o <<32>>, Bytes("warn") \o <<49>>, <<105, 110, 102>>,
   Bytes("debug") \o Bytes("d"), <<48>>, <<73, 78, 70, 79, 10>>}

Texts == UNION {CaseVariants(Bytes(s)) : s \in KnownTexts} \cup OtherTexts

InitLevel ==
  /\ InitMore
  /\ InitGlobals
  /\ InitLocals
  /\ globalHooks = <<>>
  /\ hooks = [p \in Procs |-> <<>>]
  /\ trace = [p \in Procs |-> <<>>]
  /\ ctx = NoCtx
  /\ window = NoWindow
  /\ text \in Texts
  /\ lvl \in Levels \cup InvalidLevels
  /\ config = DefaultConfig
  /\ result = NoResult

\* err := lvl.UnmarshalText(text)
Unmarshal ==
  /\ result.op = "none"
  /\ lvl' = UnmarshalText(lvl, text).level
  /\ result' = [op |-> "UnmarshalText", recv |-> lvl, of |-> "none",
                err |-> UnmarshalText(lvl, text).err]
  /\ UNCHANGED <<globals, locals, config, globalHooks, hooks, trace, text, ctx,
                 window,
                 more>>

\* text, _ = lvl.MarshalText()
Marshal ==
  /\ result.op = "none"
  /\ text' = MarshalText(lvl).text
  /\ result' = [op |-> "MarshalText", recv |-> lvl, of |-> lvl,
                err |-> MarshalText(lvl).err]
  /\ UNCHANGED <<globals, locals, config, globalHooks, hooks, trace, lvl, ctx,
                 window,
                 more>>

\* var l2 Level (or any other Level variable); err := l2.UnmarshalText(text), on
\* the text MarshalText gave
UnmarshalMarshalled ==
  /\ result.op = "MarshalText"
  /\ \E l2 \in Levels \cup InvalidLevels :
       /\ lvl' = UnmarshalText(l2, text).level
       /\ result' = [op |-> "UnmarshalText", recv |-> l2, of |-> result.of,
                     err |-> UnmarshalText(l2, text).err]
  /\ UNCHANGED <<globals, locals, config, globalHooks, hooks, trace, text, ctx,
                 window,
                 more>>

NextLevel == Unmarshal \/ Marshal \/ UnmarshalMarshalled

SpecLevel == InitLevel /\ [][NextLevel]_vars

(***************************************************************************)
(* SpecEnv: InitFromEnv on an empty slot, over the process environment     *)
(***************************************************************************)
\* the nine variables InitFromEnv reads, and the LoggerConfig field of each
EnvVars ==
  {"LOG_LEVEL", "LOG_OUTPUT", "LOG_FORMAT", "LOG_FILE_PATH", "LOG_MAX_SIZE",
   "LOG_MAX_BACKUPS", "LOG_MAX_AGE", "LOG_COMPRESS", "LOG_SAMPLING"}

EnvField ==
  [v \in EnvVars |->
     CASE v = "LOG_LEVEL" -> "Level"
       [] v = "LOG_OUTPUT" -> "Output"
       [] v = "LOG_FORMAT" -> "Format"
       [] v = "LOG_FILE_PATH" -> "FilePath"
       [] v = "LOG_MAX_SIZE" -> "MaxSize"
       [] v = "LOG_MAX_BACKUPS" -> "MaxBackups"
       [] v = "LOG_MAX_AGE" -> "MaxAge"
       [] v = "LOG_COMPRESS" -> "Compress"
       [] v = "LOG_SAMPLING" -> "Sampling"]

\* os.LookupEnv(key): the variable is absent, or set to a string
Unset == [set |-> FALSE, v |-> ""]

SetTo(v) == [set |-> TRUE, v |-> v]

\* the environments InitFromEnv is run in: each variable absent or set, to a
\* value that parses or to one that does not
Environments ==
  [LOG_LEVEL : {Unset, SetTo("debug"), SetTo("verbose")},
   LOG_OUTPUT : {Unset, SetTo("console"), SetTo("file")},
   LOG_FORMAT : {Unset, SetTo("json")},
   LOG_FILE_PATH : {Unset, SetTo(""), SetTo(AbsPath)},
   LOG_MAX_SIZE : {Unset, SetTo("50"), SetTo("abc")},
   LOG_MAX_BACKUPS : {Unset, SetTo("0")},
   LOG_MAX_AGE : {Unset, SetTo("7")},
   LOG_COMPRESS : {Unset, SetTo("false"), SetTo("yes")},
   LOG_SAMPLING : {Unset, SetTo("true")}]

\* strconv.Atoi on the texts of Environments
Atoi(t) ==
  CASE t = "0" -> [i |-> 0, err |-> nil]
    [] t = "7" -> [i |-> 7, err |-> nil]
    [] t = "50" -> [i |-> 50, err |-> nil]
    [] OTHER -> [i |-> 0, err |-> "invalid syntax"]

\* strconv.ParseBool
ParseBool(t) ==
  CASE t \in {"1", "t", "T", "TRUE", "true", "True"} -> [b |-> TRUE, err |-> nil]
    [] t \in {"0", "f", "F", "FALSE", "false", "False"} -> [b |-> FALSE, err |-> nil]
    [] OTHER -> [b |-> FALSE, err |-> "invalid syntax"]

getEnv(e, key, defaultValue) == IF e[key].set THEN e[key].v ELSE defaultValue

getEnvInt(e, key, defaultValue) ==
  IF e[key].set /\ Atoi(e[key].v).err = nil THEN Atoi(e[key].v).i
  ELSE defaultValue

getEnvBool(e, key, defaultValue) ==
  IF e[key].set /\ ParseBool(e[key].v).err = nil THEN ParseBool(e[key].v).b
  ELSE defaultValue

\* InitFromEnv's cfg literal
EnvLiteral(e) ==
  [Level |-> getEnv(e, "LOG_LEVEL", "info"),
   Output |-> getEnv(e, "LOG_OUTPUT", "both"),
   Format |-> getEnv(e, "LOG_FORMAT", "console"),
   FilePath |-> getEnv(e, "LOG_FILE_PATH", ""),
   MaxSize |-> getEnvInt(e, "LOG_MAX_SIZE", 100),
   MaxBackups |-> getEnvInt(e, "LOG_MAX_BACKUPS", 10),
   MaxAge |-> getEnvInt(e, "LOG_MAX_AGE", 30),
   Compress |-> getEnvBool(e, "LOG_COMPRESS", TRUE),
   Sampling |-> getEnvBool(e, "LOG_SAMPLING", FALSE)]

\* if cfg.FilePath == "" { wd, _ := os.Getwd(); cfg.FilePath = Join(wd, "logs",
\* "app.log") }: the error of Getwd is dropped, and Join skips an empty wd
EnvConfig(e, fs) ==
  IF EnvLiteral(e).FilePath = ""
  THEN [EnvLiteral(e) EXCEPT
          !.FilePath = IF fs.getwd THEN Join(Wd, RelPath) ELSE RelPath]
  ELSE EnvLiteral(e)

\* zapcore.ParseLevel: InfoLevel beside the error for a text it does not know
ParseLevel(t) ==
  CASE t = "debug" -> -1
    [] t = "info" -> 0
    [] t = "warn" -> 1
    [] t = "error" -> 2
    [] t = "panic" -> 4
    [] t = "fatal" -> 5
    [] OTHER -> 0

\* NewLogger(config *LoggerConfig), the build InitFromEnv reaches: the file
\* core comes first when Output is not "console" and not "file"
NewLoggerOfPointer(c, fs) ==
  LET level == IF c.Level # "" THEN ParseLevel(c.Level) ELSE 0
      console == [kind |-> "console",
                  enc |-> IF c.Format = "json" THEN "json" ELSE "console",
                  level |-> level, writer |-> Stdout]
      file == [kind |-> "file", enc |-> "json", level |-> level,
               writer |-> Lumberjack(c)]
      fail(msg) == [logger |-> NilLogger, err |-> msg]
      built(cores) == [logger |-> [cores |-> cores, sampling |-> c.Sampling,
                                   callerSkip |-> 0],
                       err |-> nil]
  IN  IF c.FilePath # "" /\ ~fs.mkdir THEN fail("MkdirAll failed")
      ELSE IF c.Output = "console" THEN built(<<console>>)
      ELSE IF c.FilePath = "" THEN fail("no file path")
      ELSE IF c.Output = "file" THEN built(<<file>>)
      ELSE built(<<file, console>>)

InitEnv ==
  /\ InitGlobals
  /\ InitLocals
  /\ globalHooks = <<>>
  /\ hooks = [p \in Procs |-> <<>>]
  /\ trace = [p \in Procs |-> <<>>]
  /\ text = <<>>
  /\ lvl = InfoLevel
  /\ ctx = NoCtx
  /\ window = NoWindow
  /\ hooksMutex = NoMutex
  /\ sinkOut = [s \in Sinks |-> <<>>]
  /\ sinkLock = [s \in Sinks |-> 0]
  /\ env \in Environments
  /\ config = DefaultConfig
  /\ result = NoResult

\* InitFromEnv(): the config resolved from the environment, then
\* InitLogger(cfg) on the empty slot: once.Do runs NewLogger, which writes its
\* own Info record, and the sugared logger is set when the build succeeded
InitFromEnv ==
  /\ result.op = "none"
  /\ ~onceDone
  /\ \E fs \in Filesystems :
       LET cfg == EnvConfig(env, fs)
           r == NewLoggerOfPointer(cfg, fs)
       IN  /\ config' = cfg
           /\ globalLogger' = r.logger
           /\ globalSugaredLogger' =
                IF r.err = nil THEN SugarOf(r.logger) ELSE NilSugar
           /\ result' = [op |-> "InitFromEnv", fs |-> fs, err |-> r.err,
                         wrote |-> IF r.err = nil THEN Write(r.logger, 0, 1)
                                   ELSE NoWrites]
  /\ onceDone' = TRUE
  /\ builds' = builds + 1
  /\ UNCHANGED <<onceOwner, exited, locals, globalHooks, hooks, trace, text,
                 lvl, ctx, window, more>>

NextEnv == InitFromEnv

SpecEnv == InitEnv /\ [][NextEnv]_vars

(***************************************************************************)
(* SpecLock: RegisterLogHook and executeHooks under hooksMutex             *)
(***************************************************************************)
\* the registry's length up to which the goroutines of SpecLock register hooks
MaxHooks == 3

\* the LogHook values of SpecLock: "nesting" calls RegisterLogHook from inside
\* its OnLog, with a hook whose OnLog does nothing
LockHooks == {"quiet", "nesting"}

NestedHook == "quiet"

\* the level of the log calls of SpecLock
LockLevels == {InfoLevel}

\* the positions between Lock / RLock and the matching Unlock / RUnlock
WriterPcs == {"load", "store", "unlock"}

ReaderPcs == {"copy", "runlock"}

\* a registration that has not stored its hook yet
Registering(q) == pc[q] \in {"lock", "load", "store"}

CanRegister ==
  Len(globalHooks) + Cardinality({q \in Procs : Registering(q)}) < MaxHooks

InitLock ==
  /\ globalLogger = DefaultLogger
  /\ globalSugaredLogger = SugarOf(newLogger(DefaultConfig, FsOk).logger)
  /\ onceDone = TRUE
  /\ onceOwner = 0
  /\ builds = 1
  /\ exited = FALSE
  /\ InitLocals
  /\ InitRest
  /\ config = DefaultConfig
  /\ result = NoResult

\* a goroutine calls RegisterLogHook(hook)
CallRegisterLogHook(p) ==
  /\ ~exited
  /\ pc[p] \in {"idle", "ret"}
  /\ CanRegister
  /\ \E h \in LockHooks :
       call' = [call EXCEPT ![p] =
                  [name |-> "RegisterLogHook", level |-> "none", ctx |-> NoCtx,
                   before |-> <<>>, reg |-> h, old |-> <<>>]]
  /\ pc' = [pc EXCEPT ![p] = "lock"]
  /\ outcome' = [outcome EXCEPT ![p] = "running"]
  /\ hooks' = [hooks EXCEPT ![p] = <<>>]
  /\ trace' = [trace EXCEPT ![p] = <<>>]
  /\ UNCHANGED <<globals, err, logger, sugar, wrote, ran, config, result,
                 globalHooks, text, lvl, ctx, window, more>>

\* a variant of Lock that does not wait
MayLockAlways(m) == TRUE

\* sync.RWMutex.Lock proceeds when no goroutine holds the mutex
MayLock(m) == m.writer = 0 /\ m.readers = {}

\* hooksMutex.Lock()
Lock(p) ==
  /\ At(p, "lock")
  /\ MayLock(hooksMutex)
  /\ hooksMutex' = [hooksMutex EXCEPT !.writer = p]
  /\ pc' = [pc EXCEPT ![p] = "load"]
  /\ UNCHANGED <<globals, call, err, logger, sugar, outcome, wrote, ran, config,
                 result, globalHooks, hooks, trace, text, lvl, ctx, window, env,
                 sinkOut, sinkLock>>

\* globalHooks = append(globalHooks, hook): the slice is read ...
LoadHooks(p) ==
  /\ At(p, "load")
  /\ call' = [call EXCEPT ![p].old = globalHooks]
  /\ pc' = [pc EXCEPT ![p] = "store"]
  /\ UNCHANGED <<globals, err, logger, sugar, outcome, wrote, ran, config,
                 result, globalHooks, hooks, trace, text, lvl, ctx, window, more>>

\* ... and the slice with the hook appended is assigned
StoreHooks(p) ==
  /\ At(p, "store")
  /\ globalHooks' = Append(call[p].old, call[p].reg)
  /\ pc' = [pc EXCEPT ![p] = "unlock"]
  /\ UNCHANGED <<globals, call, err, logger, sugar, outcome, wrote, ran, config,
                 result, hooks, trace, text, lvl, ctx, window, more>>

\* a variant of the loop that ranges over globalHooks itself
RangeOverCurrent(copy, current) == current

\* for _, hook := range hooks: the loop ranges over the copy
RangeOver(copy, current) == copy

\* defer hooksMutex.Unlock(): RegisterLogHook returns, to its caller or into
\* the OnLog that called it
Unlock(p) ==
  /\ At(p, "unlock")
  /\ hooksMutex' = [hooksMutex EXCEPT !.writer = 0]
  /\ IF call[p].name = "RegisterLogHook"
     THEN Finish(p, "returned")
     ELSE /\ pc' = [pc EXCEPT ![p] =
                      IF LoopEnds(RangeOver(hooks[p], globalHooks),
                                  Len(Invoked(trace[p])), FALSE)
                      THEN "logger" ELSE "onlog"]
          /\ UNCHANGED outcome
  /\ UNCHANGED <<globals, call, err, logger, sugar, wrote, ran, config,
                 result, globalHooks, hooks, trace, text, lvl, ctx, window, env,
                 sinkOut, sinkLock>>

\* a goroutine calls Debug .. Fatal: logWithFields, which starts with
\* executeHooks; the call remembers the hooks registered before it
CallLogWithFields(p) ==
  /\ ~exited
  /\ pc[p] \in {"idle", "ret"}
  /\ \E level \in LockLevels :
       call' = [call EXCEPT ![p] =
                  [name |-> "logWithFields", level |-> level, ctx |-> NoCtx,
                   before |-> globalHooks, reg |-> "none", old |-> <<>>]]
  /\ pc' = [pc EXCEPT ![p] = "rlock"]
  /\ logger' = [logger EXCEPT ![p] = NilLogger]
  /\ outcome' = [outcome EXCEPT ![p] = "running"]
  /\ wrote' = [wrote EXCEPT ![p] = NoWrites]
  /\ hooks' = [hooks EXCEPT ![p] = <<>>]
  /\ trace' = [trace EXCEPT ![p] = <<>>]
  /\ UNCHANGED <<globals, err, sugar, ran, config, result, globalHooks, text,
                 lvl, ctx, window, more>>

\* hooksMutex.RLock(): waits for the writer, and for a goroutine blocked in Lock
RLock(p) ==
  /\ At(p, "rlock")
  /\ hooksMutex.writer = 0
  /\ \A q \in Procs : pc[q] # "lock"
  /\ hooksMutex' = [hooksMutex EXCEPT !.readers = @ \cup {p}]
  /\ pc' = [pc EXCEPT ![p] = "copy"]
  /\ UNCHANGED <<globals, call, err, logger, sugar, outcome, wrote, ran, config,
                 result, globalHooks, hooks, trace, text, lvl, ctx, window, env,
                 sinkOut, sinkLock>>

\* hooks := make([]LogHook, len(globalHooks)); copy(hooks, globalHooks)
CopyHooks(p) ==
  /\ At(p, "copy")
  /\ hooks' = [hooks EXCEPT ![p] = globalHooks]
  /\ pc' = [pc EXCEPT ![p] = "runlock"]
  /\ UNCHANGED <<globals, call, err, logger, sugar, outcome, wrote, ran, config,
                 result, globalHooks, trace, text, lvl, ctx, window, more>>

\* a variant that keeps the read lock: defer hooksMutex.RUnlock()
ReadersAfterDeferredRUnlock(readers, p) == readers

\* hooksMutex.RUnlock(), before the loop
ReadersAfterRUnlock(readers, p) == readers \ {p}

RUnlock(p) ==
  /\ At(p, "runlock")
  /\ hooksMutex' = [hooksMutex EXCEPT !.readers = ReadersAfterRUnlock(@, p)]
  /\ pc' = [pc EXCEPT ![p] =
              IF Len(RangeOver(hooks[p], globalHooks)) = 0 THEN "logger"
              ELSE "onlog"]
  /\ UNCHANGED <<globals, call, err, logger, sugar, outcome, wrote, ran, config,
                 result, globalHooks, hooks, trace, text, lvl, ctx, window, env,
                 sinkOut, sinkLock>>

\* one iteration of the loop: hook.OnLog(zlogLevel, msg, fields); the OnLog of
\* "nesting" calls RegisterLogHook(NestedHook) before it returns
RunHook(p) ==
  /\ At(p, "onlog")
  /\ LET hs == RangeOver(hooks[p], globalHooks)
         i == Len(Invoked(trace[p])) + 1
         h == HookAt(hs, i)
     IN /\ trace' = [trace EXCEPT ![p] =
                       Append(@, [ev |-> "hook", hook |-> h,
                                  level |-> call[p].level,
                                  failed |-> OnLogFails(h)])]
        /\ IF h = "nesting" /\ CanRegister
           THEN /\ call' = [call EXCEPT ![p].reg = NestedHook]
                /\ pc' = [pc EXCEPT ![p] = "lock"]
           ELSE /\ pc' = [pc EXCEPT ![p] =
                            IF LoopEnds(hs, i, OnLogFails(h)) THEN "logger"
                            ELSE "onlog"]
                /\ UNCHANGED call
  /\ UNCHANGED <<globals, err, logger, sugar, outcome, wrote, ran, config,
                 result, globalHooks, hooks, text, lvl, ctx, window, more>>

NextLock ==
  \E p \in Procs :
    \/ CallRegisterLogHook(p)
    \/ Lock(p)
    \/ LoadHooks(p)
    \/ StoreHooks(p)
    \/ Unlock(p)
    \/ CallLogWithFields(p)
    \/ RLock(p)
    \/ CopyHooks(p)
    \/ RUnlock(p)
    \/ RunHook(p)
    \/ GetLogger(p)
    \/ WriteSinks(p)
    \/ AfterTheWrite(p)

\* the scheduler runs every goroutine that can take a step outside a hook;
\* nothing is assumed of the code of a hook, which may never return
FairLock ==
  \A p \in Procs :
    /\ WF_vars(LoadHooks(p) \/ StoreHooks(p) \/ Unlock(p))
    /\ WF_vars(CopyHooks(p) \/ RUnlock(p))
    /\ SF_vars(Lock(p))

SpecLock == InitLock /\ [][NextLock]_vars /\ FairLock

(***************************************************************************)
(* SpecSink: concurrent records on the write syncers of the cores          *)
(***************************************************************************)
\* the number of pieces in which the bytes of one record reach a sink
RecordParts == 2

\* the configs of the logger installed before the calls of SpecSink
SinkConfigs == {FileConfig, DefaultConfig}

\* the levels of the calls of SpecSink: below FileConfig's threshold, and above
SinkLevels == {InfoLevel, ErrorLevel}

\* the cores that write a record of level zl, in the order of the Tee
WritingCores(l, zl) == SelectSeq(l.cores, LAMBDA core : Enabled(core, zl))

\* the sink of the core the call of p is at
SinkAt(p) ==
  WritingCores(globalLogger, logWithFieldsMethod(call[p].level))[call[p].core].kind

InitSink ==
  /\ \E cfg \in SinkConfigs :
       /\ globalLogger = WithCallerSkip(newLogger(cfg, FsOk).logger)
       /\ globalSugaredLogger = SugarOf(newLogger(cfg, FsOk).logger)
  /\ onceDone = TRUE
  /\ onceOwner = 0
  /\ builds = 1
  /\ exited = FALSE
  /\ InitLocals
  /\ InitRest
  /\ config = DefaultConfig
  /\ result = NoResult

\* each goroutine logs one record: the zap method checks the entry against the
\* cores and hands it to those that write it, one after the other
CallLogRecord(p) ==
  /\ pc[p] = "idle"
  /\ \E level \in SinkLevels :
       /\ call' = [call EXCEPT ![p] =
                     [name |-> "Log", level |-> level, core |-> 1, part |-> 1]]
       /\ IF Len(WritingCores(globalLogger, logWithFieldsMethod(level))) = 0
          THEN Finish(p, "returned")
          ELSE pc' = [pc EXCEPT ![p] = "acquire"] /\ UNCHANGED outcome
  /\ UNCHANGED <<globals, err, logger, sugar, wrote, ran, pure>>

\* a variant of the write syncers without a mutex
MayWriteUnlocked(holder) == TRUE

\* zapcore.Lock(os.Stdout) wraps Write in a mutex; zapcore.AddSync(writer) adds
\* none, and lumberjack.Logger.Write takes the mutex of the lumberjack.Logger
MayWrite(holder) == holder = 0

\* ioCore.Write: c.out.Write(buf.Bytes()) enters the sink's Write
AcquireSink(p) ==
  /\ At(p, "acquire")
  /\ MayWrite(sinkLock[SinkAt(p)])
  /\ sinkLock' = [sinkLock EXCEPT ![SinkAt(p)] = p]
  /\ pc' = [pc EXCEPT ![p] = "part"]
  /\ UNCHANGED <<globals, call, err, logger, sugar, outcome, wrote, ran, config,
                 result, globalHooks, hooks, trace, text, lvl, ctx, window,
                 hooksMutex, env, sinkOut>>

\* the next piece of the record reaches the file or the terminal
WritePart(p) ==
  /\ At(p, "part")
  /\ sinkOut' = [sinkOut EXCEPT ![SinkAt(p)] =
                   Append(@, [rec |-> p, part |-> call[p].part])]
  /\ IF call[p].part = RecordParts
     THEN pc' = [pc EXCEPT ![p] = "release"] /\ UNCHANGED call
     ELSE call' = [call EXCEPT ![p].part = @ + 1] /\ UNCHANGED pc
  /\ UNCHANGED <<globals, err, logger, sugar, outcome, wrote, ran, config,
                 result, globalHooks, hooks, trace, text, lvl, ctx, window,
                 hooksMutex, env, sinkLock>>

\* the sink's Write returns; the Tee goes on to its next core, or the call ends
ReleaseSink(p) ==
  /\ At(p, "release")
  /\ sinkLock' = [sinkLock EXCEPT ![SinkAt(p)] = 0]
  /\ wrote' = [wrote EXCEPT ![p][SinkAt(p)] = @ + 1]
  /\ IF call[p].core =
          Len(WritingCores(globalLogger, logWithFieldsMethod(call[p].level)))
     THEN Finish(p, "returned") /\ UNCHANGED call
     ELSE /\ call' = [call EXCEPT ![p].core = @ + 1, ![p].part = 1]
          /\ pc' = [pc EXCEPT ![p] = "acquire"]
          /\ UNCHANGED outcome
  /\ UNCHANGED <<globals, err, logger, sugar, ran, config,
                 result, globalHooks, hooks, trace, text, lvl, ctx, window,
                 hooksMutex, env, sinkOut>>

NextSink ==
  \E p \in Procs :
    \/ CallLogRecord(p)
    \/ AcquireSink(p)
    \/ WritePart(p)
    \/ ReleaseSink(p)

SpecSink == InitSink /\ [][NextSink]_vars

(***************************************************************************)
(* Properties                                                              *)
(***************************************************************************)
\* the documented order Debug < Info < Warn < Error < Panic < Fatal
DeclLess(a, b) ==
  \E i, j \in 1..Len(LevelOrder) : LevelOrder[i] = a /\ LevelOrder[j] = b /\ i < j

\* Logger() has returned to goroutine p's call, and logger[p] holds its value
LoggerReturned(p) ==
  \/ pc[p] = "ret" /\ call[p].name = "Logger"
  \/ pc[p] \in {"sync", "emit"}

HasSink(l, k) == \E i \in 1..Len(l.cores) : l.cores[i].kind = k

\* C1: when every goroutine makes its first call (Logger, directly or through
\* Sugar, Sync or a log facade) while the slot is empty, newLogger runs exactly
\* once and Logger() returns the same instance to every one of the calls.
C1_OneBuildOneInstance ==
  /\ builds <= 1
  /\ \A p \in Procs : LoggerReturned(p) => builds = 1
  /\ \A p, q \in Procs :
       LoggerReturned(p) /\ LoggerReturned(q) => logger[p] = logger[q]

\* C2: a call of Logger() or Sugar() returns only once the one-time
\* initialisation has finished, so what Logger() returned is the instance in
\* the slot (never an intermediate one) and what Sugar() returned is the
\* sugared logger in the slot (never nil beside an installed logger).
C2_GateBlocksUntilInstalled ==
  \A p \in Procs :
    pc[p] = "ret" /\ call[p].name \in {"Logger", "Sugar"} =>
      /\ onceDone
      /\ call[p].name = "Logger" => logger[p] = globalLogger
      /\ call[p].name = "Sugar" => sugar[p] = globalSugaredLogger

\* C3: first writer wins: once the one-time initialisation has installed a
\* logger, no step of any InitLogger, InitDefault, Logger, Sugar, Sync or log
\* call changes globalLogger or globalSugaredLogger, and no build runs.
C3_FirstWriterWins ==
  [][(onceDone /\ globalLogger # NilLogger) =>
       /\ globalLogger' = globalLogger
       /\ globalSugaredLogger' = globalSugaredLogger
       /\ builds' = builds]_vars

\* C3 witness: a logger is installed, and an InitLogger call with a valid
\* config that would build another logger has returned without running a build
C3_Witness ==
  \E p \in Procs :
    /\ pc[p] = "ret" /\ call[p].name = "InitLogger" /\ ~ran[p]
    /\ call[p].cfg = FileConfig
    /\ onceDone /\ builds = 1
    /\ globalLogger # NilLogger
    /\ globalLogger.cores # newLogger(FileConfig, FsOk).logger.cores

\* C4: in every reachable state a facade log call at a level below Panic
\* returns normally, and Logger() never returns nil, even after a failed build.
C4_LogCallsReturnNormally ==
  \A p \in Procs :
    /\ pc[p] = "ret" /\ call[p].name = "Log" /\ DeclLess(call[p].level, PanicLevel)
         => outcome[p] = "returned"
    /\ pc[p] = "ret" /\ call[p].name = "Logger" => logger[p] # NilLogger

\* C5 (as claimed): every InitLogger call whose config has Output in {file, both}
\* and an empty FilePath returns a non-nil error, in every state of the slot.
C5_BadConfigAlwaysReported ==
  \A p \in Procs :
    /\ pc[p] = "ret" /\ IsInit(call[p])
    /\ call[p].cfg.Output \in {"file", "both"} /\ call[p].cfg.FilePath = ""
    => err[p] # nil

\* C5 (amended): an InitLogger call whose config has Output in {file, both} and
\* an empty FilePath returns a non-nil error exactly when it is the call that
\* runs the one-time initialisation; a call that finds the gate consumed (by an
\* earlier or a concurrent initialisation) returns nil.
C5_BadConfigReportedByTheBuild ==
  \A p \in Procs :
    /\ pc[p] = "ret" /\ IsInit(call[p])
    /\ call[p].cfg.Output \in {"file", "both"} /\ call[p].cfg.FilePath = ""
    => (err[p] # nil <=> ran[p])

\* C5 witness: the call that ran the build was given Output = both without a
\* FilePath, and has returned the error
C5_Witness ==
  \E p \in Procs :
    /\ pc[p] = "ret" /\ call[p].name = "InitLogger" /\ ran[p]
    /\ call[p].cfg = BadBothConfig
    /\ err[p] # nil
    /\ globalLogger = NilLogger

\* C6: with a working filesystem, newLogger fails iff the config has Output in
\* {file, both} and an empty FilePath, and validate fails on exactly the same
\* configs; every other config, whatever its Level, Output, Format and rotation
\* values, builds a logger with at least one sink.
C6_BuildFailsIffFilePathMissing ==
  /\ result.op = "newLogger" /\ result.fs = FsOk =>
       /\ result.err # nil <=>
            (config.Output \in {"file", "both"} /\ config.FilePath = "")
       /\ result.err = nil => Len(result.logger.cores) >= 1
  /\ result.op = "validate" =>
       (result.err # nil <=>
          (result.in.Output \in {"file", "both"} /\ result.in.FilePath = ""))

\* C6 witness: newLogger has refused Output = both without a FilePath
C6_Witness ==
  /\ result.op = "newLogger" /\ result.fs = FsOk
  /\ config.Output = "both" /\ config.FilePath = ""
  /\ result.err # nil

\* C7: without sampling, for a logger built from a config whose Level is one of
\* the six levels T, a record dispatched at level L is written to each sink iff
\* L >= T in the order Debug < Info < Warn < Error < Panic < Fatal.
C7_ThresholdIsConfiguredLevel ==
  result.op = "dispatch" /\ config.Level \in Levels /\ ~result.logger.sampling =>
    \A k \in Sinks :
      HasSink(result.logger, k) =>
        (result.wrote[k] >= 1 <=> ~DeclLess(result.level, config.Level))

\* C8: the comparison operators on two of the six Level constants (here the
\* level of the record and the level of the config) give the order
\* Debug < Info < Warn < Error < Panic < Fatal, and toZapCoreLevel preserves it.
C8_LevelOrder ==
  result.op = "dispatch" /\ config.Level \in Levels =>
    /\ LevelLess(result.level, config.Level) <=> DeclLess(result.level, config.Level)
    /\ DeclLess(result.level, config.Level) =>
         toZapCoreLevel(result.level) < toZapCoreLevel(config.Level)

C11_FileSinkIsJson ==
  result.op = "newLogger" /\ result.err = nil =>
    \A i \in 1..Len(result.logger.cores) :
      LET core == result.logger.cores[i] IN
        /\ core.kind = "file" => core.enc = "json"
        /\ core.kind = "console" =>
             (core.enc = "json" <=> config.Format = "json")
        /\ core.enc \in {"json", "console"}

\* C11 witness: Output = both with Format = console was built, and the two
\* sinks encode differently
C11_Witness ==
  /\ result.op = "newLogger" /\ result.err = nil
  /\ config.Output = "both" /\ config.Format = "console"
  /\ \E i, j \in 1..Len(result.logger.cores) :
       /\ result.logger.cores[i].kind = "console"
       /\ result.logger.cores[i].enc = "console"
       /\ result.logger.cores[j].kind = "file"
       /\ result.logger.cores[j].enc = "json"

\* the number of invocations of hook h in a call's trace
Invocations(t, h) == Len(SelectSeq(t, LAMBDA e : e.ev = "hook" /\ e.hook = h))

\* the position of hook h in a sequence of hooks, 0 if it is not there
Position(hs, h) ==
  IF \E i \in 1..Len(hs) : hs[i] = h
  THEN CHOOSE i \in 1..Len(hs) : hs[i] = h
  ELSE 0

\* the call of goroutine p is past the place of its hook dispatch
PastHooks(p) == pc[p] \in {"write", "after", "ret"}

\* C12: every log call through any facade (typed-field, key-value, printf, and
\* their Ctx siblings) runs the hook dispatch exactly once: each hook that was
\* registered before the call is invoked exactly once for it.
C12_HooksOncePerCall ==
  \A p \in HookCallers :
    PastHooks(p) =>
      /\ \A i \in 1..Len(call[p].before) :
           Invocations(trace[p], call[p].before[i]) = 1
      /\ \A h \in Hooks : Invocations(trace[p], h) <= 1

C14_HookFailureContained ==
  \A p \in HookCallers :
    /\ PastHooks(p)
    /\ call[p].name \in {"logWithFields", "SugarHooked", "logWithFieldsCtx"}
    /\ \E i \in 1..Len(trace[p]) : trace[p][i].ev = "hook" /\ trace[p][i].failed
    => /\ \A i \in 1..Len(call[p].before) :
            Invocations(trace[p], call[p].before[i]) = 1
       /\ pc[p] \in {"after", "ret"} =>
            \A k \in 1..Len(globalLogger.cores) :
              globalLogger.cores[k].level <= Method(call[p].name, call[p].level) =>
                \E i \in 1..Len(trace[p]) :
                  /\ trace[p][i].ev = "write"
                  /\ trace[p][i].sink = globalLogger.cores[k].kind
       /\ pc[p] = "ret" /\ DeclLess(call[p].level, PanicLevel) =>
            outcome[p] = "returned"

\* C14 witness: the failing hook was invoked first, the quiet hook after it,
\* the record was written and the call has returned
C14_Witness ==
  \E p \in HookCallers :
    /\ pc[p] = "ret" /\ outcome[p] = "returned"
    /\ Len(trace[p]) >= 3
    /\ trace[p][1].ev = "hook" /\ trace[p][1].failed
    /\ trace[p][2].ev = "hook" /\ ~trace[p][2].failed
    /\ trace[p][3].ev = "write"

\* C15: hook dispatch comes first and does not depend on sink admission: in no
\* call is a hook invoked after a sink write of the call, and a call through
\* logWithFields or logWithFieldsCtx invokes the registered hooks also when
\* its record is below every sink's threshold and written nowhere.
C15_HooksBeforeSinks ==
  \A p \in HookCallers :
    /\ \A i, j \in 1..Len(trace[p]) :
         trace[p][i].ev = "write" /\ trace[p][j].ev = "hook" => j < i
    /\ PastHooks(p) /\ call[p].name \in {"logWithFields", "logWithFieldsCtx"} =>
         \A i \in 1..Len(call[p].before) :
           Invocations(trace[p], call[p].before[i]) = 1

\* C15 witness: a Debug call through logWithFields on a logger whose sinks
\* admit Error and above has returned: a hook was invoked, nothing was written
C15_Witness ==
  \E p \in HookCallers :
    /\ pc[p] = "ret" /\ call[p].name = "logWithFields"
    /\ call[p].level = DebugLevel
    /\ wrote[p] = NoWrites
    /\ Len(trace[p]) >= 1
    /\ \A i \in 1..Len(trace[p]) : trace[p][i].ev = "hook"

\* C16: the irreversible action of a Panic or Fatal call comes last: the panic
\* or the exit is the last thing the call does, after its hook invocations and
\* after the record was written to every sink that admits it.
C16_PanicFatalLast ==
  /\ \A p \in HookCallers :
       \A i \in 1..Len(trace[p]) :
         trace[p][i].ev \in {"panicked", "exited"} =>
           /\ i = Len(trace[p])
           /\ call[p].level \in {PanicLevel, FatalLevel}
           /\ \A k \in 1..Len(globalLogger.cores) :
                globalLogger.cores[k].level <= toZapCoreLevel(call[p].level) =>
                  \E j \in 1..(i - 1) :
                    /\ trace[p][j].ev = "write"
                    /\ trace[p][j].sink = globalLogger.cores[k].kind
           /\ Hooked(call[p].name) =>
                \A k \in 1..Len(call[p].before) :
                  Invocations(trace[p], call[p].before[k]) = 1
  /\ exited =>
       \E p \in HookCallers :
         Len(trace[p]) > 0 /\ trace[p][Len(trace[p])].ev = "exited"

\* C16 witness: a Fatal call has ended the process after a hook invocation and
\* the writes to the console and the file
C16_Witness ==
  \E p \in HookCallers :
    /\ exited /\ outcome[p] = "exited" /\ call[p].level = FatalLevel
    /\ Len(trace[p]) = 4
    /\ trace[p][1].ev = "hook"
    /\ trace[p][2].ev = "write" /\ trace[p][3].ev = "write"
    /\ trace[p][2].sink # trace[p][3].sink
    /\ trace[p][4].ev = "exited"

\* C17: a context-bound call behaves like the call of the typed-field facade at
\* the same level L: the record is emitted at level L, the hooks registered
\* before the call are invoked with level L, and the call ends as the call
\* without context does (panic at Panic, exit at Fatal, return otherwise).
C17_CtxDispatchLikeBase ==
  \A p \in HookCallers :
    pc[p] = "ret" /\ UsesCtx(call[p].name) =>
      /\ \A i \in 1..Len(trace[p]) :
           /\ trace[p][i].ev = "write" =>
                trace[p][i].level = logWithFieldsMethod(call[p].level)
           /\ trace[p][i].ev = "hook" => trace[p][i].level = call[p].level
      /\ outcome[p] = AfterWrite(logWithFieldsMethod(call[p].level))
      /\ \A i \in 1..Len(call[p].before) :
           Invocations(trace[p], call[p].before[i]) = 1

\* the rank of a context key in the order request_id, user_id, trace_id
KeyRank(k) ==
  CASE k = "request_id" -> 1 [] k = "user_id" -> 2 [] k = "trace_id" -> 3
    [] OTHER -> 0

\* C18: context binding attaches exactly the identifiers that are present: for
\* each of request_id, user_id, trace_id the emitted record carries a string
\* field of that key with the context's value iff the context holds a
\* non-empty string under the key (nothing for an absent key, an empty string
\* or a value of another type), and the fields come in the order request_id,
\* user_id, trace_id.
C18_ContextFields ==
  result.op = "emit" =>
    \A r \in 1..Len(result.records) :
      LET fs == result.records[r].fields IN
        /\ \A k \in CtxKeys :
             (\E i \in 1..Len(fs) : fs[i].key = k)
               <=> (ctx[k].type = "string" /\ ctx[k].v # "")
        /\ \A i \in 1..Len(fs) :
             /\ fs[i].key \in CtxKeys
             /\ fs[i].type = "string"
             /\ fs[i].value = ctx[fs[i].key].v
        /\ \A i, j \in 1..Len(fs) : i < j => KeyRank(fs[i].key) < KeyRank(fs[j].key)

\* C18 witness: request_id = "abc", user_id absent, trace_id of another type:
\* the record written carries request_id = "abc" and nothing else
C18_Witness ==
  /\ result.op = "emit" /\ Len(result.records) = 1
  /\ ctx["request_id"] = [type |-> "string", v |-> "abc"]
  /\ ctx["user_id"].type = "none"
  /\ ctx["trace_id"].type = "int"
  /\ result.records[1].fields =
       <<[key |-> "request_id", type |-> "string", value |-> "abc"]>>

\* C19: with sampling enabled, of up to 1000 identical log calls within one
\* tick at most 109 are written to a sink, namely the first 100 and then every
\* 100th, while every registered hook is invoked once by each of the calls.
C19_SamplingBound ==
  window.n <= 1000 =>
    /\ \A k \in Sinks :
         /\ window.written[k] <= 109
         /\ window.written[k] \in
              {0, IF window.n <= 100 THEN window.n
                  ELSE 100 + ((window.n - 100) \div 100)}
    /\ window.hooked = window.n * Len(globalHooks)

\* C19 witness: 1000 calls were made, 109 of them were written to the console
\* and each of the two registered hooks was invoked 1000 times
C19_Witness ==
  /\ window.n = 1000
  /\ window.written["console"] = 109
  /\ Len(globalHooks) = 2
  /\ window.hooked = 2000

\* the names and short aliases of a level, as lower-case texts
NamesOf(l) ==
  CASE l = DebugLevel -> {<<100, 101, 98, 117, 103>>, <<100>>}
    [] l = InfoLevel -> {<<105, 110, 102, 111>>, <<105>>}
    [] l = WarnLevel -> {<<119, 97, 114, 110>>, <<119>>,
                         <<119, 97, 114, 110, 105, 110, 103>>}
    [] l = ErrorLevel -> {<<101, 114, 114, 111, 114>>, <<101>>, <<101, 114, 114>>}
    [] l = PanicLevel -> {<<112, 97, 110, 105, 99>>, <<112>>}
    [] l = FatalLevel -> {<<102, 97, 116, 97, 108>>, <<102>>}

\* t spells the name n in some mix of upper and lower case letters
SpellsName(t, n) ==
  /\ Len(t) = Len(n)
  /\ \A i \in 1..Len(n) : t[i] = n[i] \/ t[i] = n[i] - 32

\* C20: level parsing round-trips and rejects the rest: UnmarshalText of what
\* MarshalText gave for one of the six levels yields that level; a name or a
\* short alias of a level (d, i, w, e, p, f; the names include warning and err),
\* in any letter case, parses to that level without error; every other text
\* makes UnmarshalText return the invalid-level error.
C20_LevelParsing ==
  result.op = "UnmarshalText" =>
    /\ result.of \in Levels => result.err = nil /\ lvl = result.of
    /\ \A l \in Levels :
         (\E n \in NamesOf(l) : SpellsName(text, n)) =>
           result.err = nil /\ lvl = l
    /\ (\A l \in Levels : \A n \in NamesOf(l) : ~SpellsName(text, n)) =>
         result.err # nil

\* C20 witness: WarnLevel was marshalled and the text was parsed into a variable
\* that held DebugLevel: it holds WarnLevel now
C20_Witness ==
  /\ result.op = "UnmarshalText"
  /\ result.of = WarnLevel /\ result.recv = DebugLevel
  /\ result.err = nil
  /\ lvl = WarnLevel

\* C21: after validate, and in the lumberjack writer of a logger newLogger
\* built, MaxSize > 0, MaxBackups >= 0 and MaxAge >= 0: MaxSize <= 0 has become
\* 100, MaxBackups < 0 has become 10, MaxAge < 0 has become 30, and a value
\* already in range, a zero MaxBackups or MaxAge included, is the one given.
C21_RotationDefaults ==
  LET Filled(in, out) ==
        /\ out.MaxSize > 0 /\ out.MaxBackups >= 0 /\ out.MaxAge >= 0
        /\ out.MaxSize = (IF in.MaxSize <= 0 THEN 100 ELSE in.MaxSize)
        /\ out.MaxBackups = (IF in.MaxBackups < 0 THEN 10 ELSE in.MaxBackups)
        /\ out.MaxAge = (IF in.MaxAge < 0 THEN 30 ELSE in.MaxAge)
  IN  /\ result.op = "validate" => Filled(result.in, config)
      /\ result.op = "newLogger" /\ result.err = nil =>
            \A i \in 1..Len(result.logger.cores) :
              result.logger.cores[i].kind = "file" =>
                Filled(config, result.logger.cores[i].writer)

\* C21 witness: validate has filled MaxSize and MaxBackups and kept MaxAge = 0
C21_Witness ==
  /\ result.op = "validate"
  /\ result.in.MaxSize = 0 /\ result.in.MaxBackups = -1 /\ result.in.MaxAge = 0
  /\ config.MaxSize = 100 /\ config.MaxBackups = 10 /\ config.MaxAge = 0

\* C24: validate leaves Level, Output, Format, FilePath, Compress and Sampling
\* as they were, whether it returns an error or not, and when the file path is
\* required and missing it returns an error and the path stays empty.
C24_ValidateFrame ==
  result.op = "validate" =>
    /\ config.Level = result.in.Level
    /\ config.Output = result.in.Output
    /\ config.Format = result.in.Format
    /\ config.FilePath = result.in.FilePath
    /\ config.Compress = result.in.Compress
    /\ config.Sampling = result.in.Sampling
    /\ (result.in.Output \in {"file", "both"} /\ result.in.FilePath = "" =>
          result.err # nil /\ config.FilePath = "")

\* C24 witness: validate has refused a config whose Level, Output and Format
\* newLogger would rewrite, and has filled its rotation values
C24_Witness ==
  /\ result.op = "validate" /\ result.err # nil
  /\ result.in.Output = "file" /\ result.in.FilePath = ""
  /\ result.in.Level \in InvalidLevels
  /\ result.in.Format \notin {"json", "console"}
  /\ config.MaxSize # result.in.MaxSize

\* C27: the gate is consumed by the first initialisation whatever its outcome:
\* newLogger runs at most once over all calls of all goroutines, an InitLogger
\* or InitDefault call that finds the gate consumed runs no build, changes
\* neither global and returns nil, and a slot left empty by a failed
\* initialisation stays empty.
C27_GateConsumedOnce ==
  /\ [](/\ builds <= 1
        /\ onceDone => builds = 1
        /\ \A p \in Procs :
             pc[p] = "ret" /\ IsInit(call[p]) /\ ~ran[p] => err[p] = nil)
  /\ [][/\ (onceDone /\ globalLogger = NilLogger) =>
             globalLogger' = NilLogger /\ builds' = builds
        /\ \A p \in Procs :
             pc[p] = "once" /\ onceDone /\ IsInit(call[p]) /\ pc'[p] # "once" =>
               /\ pc'[p] = "ret" /\ err'[p] = nil
               /\ builds' = builds
               /\ globalLogger' = globalLogger
               /\ globalSugaredLogger' = globalSugaredLogger]_vars

\* C27 witness: after an initialisation that failed, an InitLogger call with a
\* valid config has returned nil without running a build, and the slot is empty
C27_Witness ==
  \E p \in Procs :
    /\ pc[p] = "ret" /\ call[p].name = "InitLogger" /\ ~ran[p]
    /\ call[p].cfg = FileConfig /\ err[p] = nil
    /\ onceDone /\ builds = 1
    /\ globalLogger = NilLogger

C22_EnvDefaultsAreDefaultConfig ==
  result.op = "InitFromEnv" =>
    \A v \in EnvVars :
      ~env[v].set => config[EnvField[v]] = DefaultConfig[EnvField[v]]

\* the hooks a call has invoked, in the order of the invocations
InvokedHooks(t) == [i \in 1..Len(Invoked(t)) |-> Invoked(t)[i].hook]

\* s is an initial segment of t
IsPrefix(s, t) == Len(s) <= Len(t) /\ \A i \in 1..Len(s) : s[i] = t[i]

\* C25: hooksMutex is never held while a hook runs: a goroutine holds it
\* shared only between RLock and RUnlock around the copy, exclusively only
\* between Lock and Unlock around the append, and not at all while it is in the
\* loop that calls OnLog; and a RegisterLogHook call that waits in Lock, made
\* by another goroutine or by a hook from inside its OnLog, acquires the mutex
\* whether or not the hooks that are running ever return.
C25_RegistryLockNotHeldInHooks ==
  /\ [](/\ \A p \in Procs :
             /\ p \in hooksMutex.readers => pc[p] \in ReaderPcs
             /\ hooksMutex.writer = p => pc[p] \in WriterPcs
             /\ pc[p] = "onlog" =>
                  p \notin hooksMutex.readers /\ hooksMutex.writer # p
        /\ hooksMutex.writer # 0 => hooksMutex.readers = {})
  /\ \A p \in Procs : (pc[p] = "lock") ~> (pc[p] = "load")

\* C25 witness: a hook has called RegisterLogHook from inside its OnLog and
\* holds the mutex for the append, while another goroutine is in its hook loop
C25_Witness ==
  \E p, q \in Procs :
    /\ p # q
    /\ call[p].name = "logWithFields" /\ pc[p] = "store"
    /\ hooksMutex.writer = p
    /\ pc[q] = "onlog"

\* C26: the registry is append-only and loses no registration: a step changes
\* globalHooks only by appending one hook to it as it is, the hook of a
\* RegisterLogHook call that holds the mutex, and every RegisterLogHook call
\* makes that step once before it returns.
C26_RegistryAppendOnly ==
  [][/\ globalHooks' # globalHooks =>
          \E p \in Procs :
            /\ pc[p] = "store" /\ pc'[p] = "unlock"
            /\ hooksMutex.writer = p
            /\ globalHooks' = Append(globalHooks, call[p].reg)
     /\ \A p \in Procs :
          /\ pc[p] = "store" /\ pc'[p] # "store" =>
               globalHooks' = Append(globalHooks, call[p].reg)
          /\ pc'[p] = "unlock" => pc[p] \in {"store", "unlock"}]_vars

\* C26 witness: two RegisterLogHook calls were in flight together, the second
\* is about to return, and the registry holds the hooks of both
C26_Witness ==
  \E p, q \in Procs :
    /\ p # q
    /\ call[p].name = "RegisterLogHook" /\ call[q].name = "RegisterLogHook"
    /\ pc[p] = "unlock" /\ pc[q] = "ret"
    /\ Len(call[p].old) = Len(call[q].old) + 1
    /\ globalHooks = Append(Append(call[q].old, call[q].reg), call[p].reg)

\* C28: hook dispatch works on the snapshot: a log call invokes exactly the
\* hooks of the list it copied, in that order; the copy starts with every hook
\* registered before the call started, and a hook appended to the registry
\* after the copy is in globalHooks beyond the copy and is not invoked.
C28_DispatchOnSnapshot ==
  \A p \in Procs :
    call[p].name = "logWithFields" /\ PastHooks(p) =>
      /\ InvokedHooks(trace[p]) = hooks[p]
      /\ IsPrefix(call[p].before, hooks[p])
      /\ IsPrefix(hooks[p], globalHooks)

\* C28 witness: a log call has invoked the one hook of its copy and returned,
\* and the registry holds a second hook, registered after the copy was made
C28_Witness ==
  \E p \in Procs :
    /\ call[p].name = "logWithFields" /\ pc[p] = "ret"
    /\ Len(hooks[p]) = 1 /\ hooks[p][1] = "quiet"
    /\ Len(InvokedHooks(trace[p])) = 1
    /\ Len(globalHooks) = 2

\* the positions in sink k at which a piece of the record of goroutine p lies
PartsAt(k, p) == {i \in 1..Len(sinkOut[k]) : sinkOut[k][i].rec = p}

\* the record of goroutine p lies in sink k whole and before that of q
WholeBefore(k, p, q) ==
  /\ Cardinality(PartsAt(k, p)) = RecordParts
  /\ Cardinality(PartsAt(k, q)) = RecordParts
  /\ \A i \in PartsAt(k, p), j \in PartsAt(k, q) : i < j

\* C23: writes to one sink are atomic per record: in what a sink has received,
\* the pieces of a record follow one another without a piece of another record
\* between them, and a call that has returned has put its record whole, once,
\* into each sink whose core admits the level.  (That two sinks may hold two
\* records in different orders is the state of the witness.)
C23_SinkWritesAtomic ==
  /\ \A k \in Sinks :
       \A i \in 1..Len(sinkOut[k]) :
         /\ sinkOut[k][i].part > 1 =>
              /\ i > 1
              /\ sinkOut[k][i - 1].rec = sinkOut[k][i].rec
              /\ sinkOut[k][i - 1].part = sinkOut[k][i].part - 1
         /\ sinkOut[k][i].part < RecordParts /\ i < Len(sinkOut[k]) =>
              /\ sinkOut[k][i + 1].rec = sinkOut[k][i].rec
              /\ sinkOut[k][i + 1].part = sinkOut[k][i].part + 1
  /\ \A p \in Procs :
       pc[p] = "ret" =>
         \A k \in Sinks :
           Cardinality(PartsAt(k, p)) =
             RecordParts * Write(globalLogger, logWithFieldsMethod(call[p].level), 1)[k]

\* C23 witness: two goroutines have logged concurrently; the console holds the
\* record of one before that of the other, whole, and the file holds them the
\* other way round
C23_Witness ==
  \E p, q \in Procs :
    /\ p # q
    /\ pc[p] = "ret" /\ pc[q] = "ret"
    /\ WholeBefore("console", p, q)
    /\ WholeBefore("file", q, p)

=============================================================================
